---- MODULE Spec2Model ----
(***************************************************************************)
(* A model of the DataGenesis multi-agent generation core:                  *)
(*   backend/app/services/agent_orchestrator.py  (AgentOrchestrator, agents)*)
(*   backend/app/services/gemini_service.py      (GeminiService)            *)
(*   backend/app/services/websocket_manager.py   (ConnectionManager)        *)
(*                                                                         *)
(* Python values are tagged records [t |-> <type>, v |-> <payload>], so    *)
(* that values of different Python types can be stored side by side and    *)
(* compared.  A Python call that may raise is modelled by a result record  *)
(* [ok |-> TRUE, val |-> v] or [ok |-> FALSE, err |-> <str(e)>].           *)
(* A text (a model response) is a tuple of one-character strings.          *)
(***************************************************************************)
EXTENDS Integers, Sequences, FiniteSets, TLC

-----------------------------------------------------------------------------
(* Python values *)

PNone == [t |-> "none"]
PNum(n) == [t |-> "num", v |-> n]
PStr(s) == [t |-> "str", v |-> s]
PBool(b) == [t |-> "bool", v |-> b]
PFloat(s) == [t |-> "float", v |-> s]
PList(q) == [t |-> "list", v |-> q]
PDict(f) == [t |-> "dict", v |-> f]
EmptyDict == PDict(<<>>)
EmptyList == PList(<<>>)

Ok(v) == [ok |-> TRUE, val |-> v]
Raise(e) == [ok |-> FALSE, err |-> e]

TypeName(x) ==
    CASE x.t = "none" -> "NoneType"
      [] x.t = "num" -> "int"
      [] x.t = "str" -> "str"
      [] x.t = "bool" -> "bool"
      [] x.t = "float" -> "float"
      [] x.t = "list" -> "list"
      [] x.t = "dict" -> "dict"

\* bool(x): Python truthiness.
Truthy(x) ==
    CASE x.t = "none" -> FALSE
      [] x.t = "num" -> x.v # 0
      [] x.t = "str" -> x.v # ""
      [] x.t = "bool" -> x.v
      [] x.t = "float" -> TRUE
      [] x.t = "list" -> Len(x.v) > 0
      [] x.t = "dict" -> DOMAIN x.v # {}

\* x.get(k, d): only a dict has the attribute.
NoAttr(x, a) == "'" \o TypeName(x) \o "' object has no attribute '" \o a \o "'"
HasGet(x) == x.t = "dict"
Get(x, k, d) == IF k \in DOMAIN x.v THEN x.v[k] ELSE d
\* d[k] = v on a dict.
SetItem(x, k, v) == PDict((k :> v) @@ x.v)
\* Keys usable in a dict lookup: lists and dicts are unhashable.
Hashable(x) == x.t \notin {"list", "dict"}
Unhashable(x) == "unhashable type: '" \o TypeName(x) \o "'"

\* len(x): defined for str, list and dict.
HasLen(x) == x.t \in {"str", "list", "dict"}
PyLen(x) ==
    CASE x.t = "str" -> Len(x.v)
      [] x.t = "list" -> Len(x.v)
      [] x.t = "dict" -> Cardinality(DOMAIN x.v)

\* A bool used as an int (range(True), data[:True]).
AsIndex(x) == IF x.t = "bool" THEN PNum(IF x.v THEN 1 ELSE 0) ELSE x

Min(a, b) == IF a <= b THEN a ELSE b
Max(a, b) == IF a >= b THEN a ELSE b

\* q[:n] on a sequence, for any integer n (a negative n counts from the end).
SlicePrefix(q, n) ==
    IF n >= 0 THEN SubSeq(q, 1, Min(n, Len(q)))
    ELSE SubSeq(q, 1, Max(Len(q) + n, 0))

-----------------------------------------------------------------------------
(* Texts: tuples of one-character strings *)

WS == {" ", "\n", "\t", "\r"}
Digits == {"0", "1", "2", "3", "4", "5", "6", "7", "8", "9"}

DigitVal(c) ==
    CASE c = "0" -> 0 [] c = "1" -> 1 [] c = "2" -> 2 [] c = "3" -> 3
      [] c = "4" -> 4 [] c = "5" -> 5 [] c = "6" -> 6 [] c = "7" -> 7
      [] c = "8" -> 8 [] c = "9" -> 9

\* s[i:] and s[:j] in 1-based positions.
From(s, i) == SubSeq(s, i, Len(s))
Upto(s, j) == SubSeq(s, 1, j)

RECURSIVE LStrip(_)
LStrip(s) == IF Len(s) > 0 /\ s[1] \in WS THEN LStrip(Tail(s)) ELSE s

RECURSIVE RStrip(_)
RStrip(s) ==
    IF Len(s) > 0 /\ s[Len(s)] \in WS THEN RStrip(SubSeq(s, 1, Len(s) - 1)) ELSE s

\* str.strip()
Strip(s) == RStrip(LStrip(s))

StartsWith(s, p) == Len(s) >= Len(p) /\ SubSeq(s, 1, Len(p)) = p
EndsWith(s, p) == Len(s) >= Len(p) /\ SubSeq(s, Len(s) - Len(p) + 1, Len(s)) = p
StartsAt(s, i, p) == i + Len(p) - 1 <= Len(s) /\ SubSeq(s, i, i + Len(p) - 1) = p

\* str.find(c) and str.rfind(c) for a one-character c, 1-based; 0 when absent
\* (Python's -1).
Find(s, c) ==
    IF \E i \in 1..Len(s) : s[i] = c
    THEN CHOOSE i \in 1..Len(s) : s[i] = c /\ \A k \in 1..(i - 1) : s[k] # c
    ELSE 0
RFind(s, c) ==
    IF \E i \in 1..Len(s) : s[i] = c
    THEN CHOOSE i \in 1..Len(s) : s[i] = c /\ \A k \in (i + 1)..Len(s) : s[k] # c
    ELSE 0

\* The first position >= i holding a character of set cs; 0 when there is none.
FindIn(s, i, cs) ==
    IF \E k \in i..Len(s) : s[k] \in cs
    THEN CHOOSE k \in i..Len(s) : s[k] \in cs /\ \A m \in i..(k - 1) : s[m] \notin cs
    ELSE 0

RECURSIVE SkipWs(_, _)
SkipWs(s, i) == IF i <= Len(s) /\ s[i] \in WS THEN SkipWs(s, i + 1) ELSE i

RECURSIVE Join(_)
Join(s) == IF Len(s) = 0 THEN "" ELSE s[1] \o Join(Tail(s))

\* The backquote character: the TLA+ lexer admits none in a string, so the
\* model writes it as "~" (no text of the model uses "~" otherwise).
BQ == "~"
\* The code-fence markers '```' and '```json'.
Fence == <<BQ, BQ, BQ>>
FenceJson == <<BQ, BQ, BQ, "j", "s", "o", "n">>

-----------------------------------------------------------------------------
(* json.loads on a text.  The decoder is Python's: a value is a string, an *)
(* object, an array, a literal or a number; whitespace is skipped around   *)
(* delimiters; text after the value is an error ("Extra data").  A parse   *)
(* returns [ok |-> TRUE, v |-> value, i |-> next position] or ParseFail.   *)
(* Texts of the model hold no backslash, so string escapes are not         *)
(* modelled: a backslash inside a string fails the parse.                  *)

ParseFail == [ok |-> FALSE]
Parsed(val, next) == [ok |-> TRUE, v |-> val, i |-> next]

\* The first position >= i that holds no digit.
RECURSIVE DigitsEnd(_, _)
DigitsEnd(s, i) == IF i <= Len(s) /\ s[i] \in Digits THEN DigitsEnd(s, i + 1) ELSE i

\* The decimal value of s[i..j-1].
RECURSIVE DigitsValue(_, _, _, _)
DigitsValue(s, i, j, acc) ==
    IF i >= j THEN acc ELSE DigitsValue(s, i + 1, j, 10 * acc + DigitVal(s[i]))

\* NUMBER_RE: (-?(?:0|[1-9]\d*))(\.\d+)?([eE][-+]?\d+)?  at position i.  The
\* integer part starts at d and ends before IntEnd; the fraction, when a digit
\* follows the point, ends before FracEnd; the exponent, when a digit follows
\* the e and the sign, starts its digits at ExpStart and ends before ExpEnd.
IntEnd(s, d) == IF s[d] = "0" THEN d + 1 ELSE DigitsEnd(s, d)
FracEnd(s, intEnd) ==
    IF intEnd + 1 <= Len(s) /\ s[intEnd] = "." /\ s[intEnd + 1] \in Digits
    THEN DigitsEnd(s, intEnd + 1) ELSE intEnd
ExpStart(s, fracEnd) ==
    IF fracEnd <= Len(s) /\ s[fracEnd] \in {"e", "E"}
    THEN IF fracEnd + 1 <= Len(s) /\ s[fracEnd + 1] \in {"+", "-"}
         THEN fracEnd + 2 ELSE fracEnd + 1
    ELSE 0
ExpEnd(s, fracEnd, expDigits) ==
    IF expDigits > 0 /\ expDigits <= Len(s) /\ s[expDigits] \in Digits
    THEN DigitsEnd(s, expDigits) ELSE fracEnd
\* An int when the match has neither fraction nor exponent, else a float.
NumberValue(s, i, d, intEnd, expEnd) ==
    IF expEnd = intEnd
    THEN Parsed(PNum(IF d > i THEN 0 - DigitsValue(s, d, intEnd, 0)
                     ELSE DigitsValue(s, d, intEnd, 0)), intEnd)
    ELSE Parsed(PFloat(Join(SubSeq(s, i, expEnd - 1))), expEnd)
NumberTail(s, i, d, intEnd, fracEnd) ==
    NumberValue(s, i, d, intEnd, ExpEnd(s, fracEnd, ExpStart(s, fracEnd)))
NumberFrom(s, i, d, intEnd) == NumberTail(s, i, d, intEnd, FracEnd(s, intEnd))
ParseNumber(s, i) ==
    IF s[i] = "-" THEN NumberFrom(s, i, i + 1, IntEnd(s, i + 1))
    ELSE NumberFrom(s, i, i, IntEnd(s, i))

\* py_scanstring from the character after the opening quote: the string ends at
\* the next double quote; a control character inside it is an error.
RECURSIVE ParseString(_, _, _)
ParseString(s, i, acc) ==
    IF i > Len(s) THEN ParseFail
    ELSE IF s[i] = "\"" THEN Parsed(PStr(acc), i + 1)
    ELSE IF s[i] \in {"\n", "\t", "\r", "\\"} THEN ParseFail
    ELSE ParseString(s, i + 1, acc \o s[i])

RECURSIVE ParseValue(_, _)
RECURSIVE ArrayItems(_, _, _)
RECURSIVE ObjectItems(_, _, _)

\* JSONArray.  After an item (acc the items so far) at position k: ']' ends
\* the array, ',' brings the next item.
ArrayAfter(s, k, acc) ==
    IF k > Len(s) THEN ParseFail
    ELSE IF s[k] = "]" THEN Parsed(PList(acc), k + 1)
    ELSE IF s[k] = "," THEN ArrayItems(s, SkipWs(s, k + 1), acc)
    ELSE ParseFail

\* r is the parse of the next item.
ArrayItem(s, r, acc) ==
    IF ~r.ok THEN ParseFail ELSE ArrayAfter(s, SkipWs(s, r.i), Append(acc, r.v))

ArrayItems(s, i, acc) == ArrayItem(s, ParseValue(s, i), acc)

\* From the first position after '[' that holds no whitespace.
ArrayBody(s, k) ==
    IF k <= Len(s) /\ s[k] = "]" THEN Parsed(EmptyList, k + 1)
    ELSE ArrayItems(s, k, <<>>)

ParseArray(s, i) == ArrayBody(s, SkipWs(s, i))

\* JSONObject.  After a pair (acc the pairs so far, a repeated key keeping its
\* last value) at position k: '}' ends the object, ',' brings the next pair,
\* which starts with a key's opening quote.
ObjectNext(s, n, acc) ==
    IF n <= Len(s) /\ s[n] = "\"" THEN ObjectItems(s, n, acc) ELSE ParseFail

ObjectAfter(s, k, acc) ==
    IF k > Len(s) THEN ParseFail
    ELSE IF s[k] = "}" THEN Parsed(PDict(acc), k + 1)
    ELSE IF s[k] = "," THEN ObjectNext(s, SkipWs(s, k + 1), acc)
    ELSE ParseFail

\* vr is the parse of the value of key.
ObjectValue(s, key, vr, acc) ==
    IF ~vr.ok THEN ParseFail
    ELSE ObjectAfter(s, SkipWs(s, vr.i), (key :> vr.v) @@ acc)

\* c is the position after the key where the ':' must be.
ObjectColon(s, key, c, acc) ==
    IF c > Len(s) \/ s[c] # ":" THEN ParseFail
    ELSE ObjectValue(s, key, ParseValue(s, SkipWs(s, c + 1)), acc)

\* kr is the parse of the key.
ObjectKey(s, kr, acc) ==
    IF ~kr.ok THEN ParseFail ELSE ObjectColon(s, kr.v.v, SkipWs(s, kr.i), acc)

\* One "key": value pair starting at the key's opening quote, then the rest.
ObjectItems(s, i, acc) == ObjectKey(s, ParseString(s, i + 1, ""), acc)

\* From the first position after '{' that holds no whitespace.
ObjectBody(s, k) ==
    IF k > Len(s) THEN ParseFail
    ELSE IF s[k] = "}" THEN Parsed(EmptyDict, k + 1)
    ELSE IF s[k] = "\"" THEN ObjectItems(s, k, <<>>)
    ELSE ParseFail

ParseObject(s, i) == ObjectBody(s, SkipWs(s, i))

\* scan_once at position i.
ParseValue(s, i) ==
    IF i > Len(s) THEN ParseFail
    ELSE IF s[i] = "\"" THEN ParseString(s, i + 1, "")
    ELSE IF s[i] = "{" THEN ParseObject(s, i + 1)
    ELSE IF s[i] = "[" THEN ParseArray(s, i + 1)
    ELSE IF StartsAt(s, i, <<"n", "u", "l", "l">>) THEN Parsed(PNone, i + 4)
    ELSE IF StartsAt(s, i, <<"t", "r", "u", "e">>) THEN Parsed(PBool(TRUE), i + 4)
    ELSE IF StartsAt(s, i, <<"f", "a", "l", "s", "e">>) THEN Parsed(PBool(FALSE), i + 5)
    ELSE IF s[i] \in Digits \/ (s[i] = "-" /\ i + 1 <= Len(s) /\ s[i + 1] \in Digits)
    THEN ParseNumber(s, i)
    ELSE IF StartsAt(s, i, <<"N", "a", "N">>) THEN Parsed(PFloat("NaN"), i + 3)
    ELSE IF StartsAt(s, i, <<"I", "n", "f", "i", "n", "i", "t", "y">>)
    THEN Parsed(PFloat("Infinity"), i + 8)
    ELSE IF StartsAt(s, i, <<"-", "I", "n", "f", "i", "n", "i", "t", "y">>)
    THEN Parsed(PFloat("-Infinity"), i + 9)
    ELSE ParseFail

\* The whole text must be one value: r is the parse of the value at its start.
Whole(s, r) ==
    IF r.ok /\ SkipWs(s, r.i) = Len(s) + 1 THEN Ok(r.v) ELSE Raise("JSONDecodeError")

\* json.loads(text): the value, or JSONDecodeError.
JsonLoads(s) == Whole(s, ParseValue(s, SkipWs(s, 1)))

\* OrElse with no except clause: the exception leaves the function.
OrRaise(r, d) == IF r.ok THEN r.val ELSE [t |-> "raised", v |-> r.err]

\* try: return <r>; except Exception: return <d>
OrElse(r, d) == IF r.ok THEN r.val ELSE d

-----------------------------------------------------------------------------
(* GeminiService: the response parsers used by the pipeline *)

\* {"error": "Failed to parse response"}
ParseErrorDict == PDict("error" :> PStr("Failed to parse response"))

\* text[7:] after a leading '```json'; else, in the two later parsers,
\* text[n:] after a leading '```'.
DropFenceJson(t) == IF StartsWith(t, FenceJson) THEN From(t, 8) ELSE t
DropFenceStart(t, n) ==
    IF StartsWith(t, FenceJson) THEN From(t, 8)
    ELSE IF StartsWith(t, Fence) THEN From(t, n + 1) ELSE t
\* text[:-3] before a trailing '```'.
DropFenceEnd(t) == IF EndsWith(t, Fence) THEN Upto(t, Len(t) - 3) ELSE t

\* _parse_json_response: strip, drop a leading '```json' and a trailing '```',
\* strip, json.loads; any exception gives the error object.
_parse_json_response(text) ==
    OrElse(JsonLoads(Strip(DropFenceEnd(DropFenceJson(Strip(text))))), ParseErrorDict)

\* The span from the first '[' to the last ']' when there is one, else the
\* whole text.
ArraySpan(t) ==
    IF Find(t, "[") # 0 /\ RFind(t, "]") >= Find(t, "[")
    THEN SubSeq(t, Find(t, "["), RFind(t, "]"))
    ELSE t

\* _parse_json_array_response: as above ('```' alone drops four characters),
\* then the span is given to json.loads; any exception gives [].
_parse_json_array_response(text) ==
    OrElse(JsonLoads(ArraySpan(Strip(DropFenceEnd(DropFenceStart(Strip(text), 4))))),
           EmptyList)

\* The last position holding a character of set cs; 0 when there is none.
LastIn(t, cs) ==
    IF \E k \in 1..Len(t) : t[k] \in cs
    THEN CHOOSE k \in 1..Len(t) : t[k] \in cs /\ \A m \in (k + 1)..Len(t) : t[m] \notin cs
    ELSE 0

\* The text from its first '[' or '{' (unless it is the first character or
\* there is none), and up to its last ']' or '}' (if any).
FromJsonStart(t) ==
    IF FindIn(t, 1, {"[", "{"}) > 1 THEN From(t, FindIn(t, 1, {"[", "{"})) ELSE t
UptoJsonEnd(t) ==
    IF LastIn(t, {"]", "}"}) > 0 THEN Upto(t, LastIn(t, {"]", "}"})) ELSE t

\* _clean_json_response: drop the fence markers ('```' alone drops three
\* characters), the text before the JSON start and after the JSON end.
_clean_json_response(text) ==
    Strip(UptoJsonEnd(FromJsonStart(DropFenceEnd(DropFenceStart(Strip(text), 3)))))


\* ,(\s*[}\]])  ->  \1
RECURSIVE FixTrailingCommas(_, _)
FixTrailingCommas(s, i) ==
    IF i > Len(s) THEN <<>>
    ELSE LET k == SkipWs(s, i + 1)
         IN  IF s[i] = "," /\ k <= Len(s) /\ s[k] \in {"}", "]"}
             THEN SubSeq(s, i + 1, k) \o FixTrailingCommas(s, k + 1)
             ELSE <<s[i]>> \o FixTrailingCommas(s, i + 1)

\* '([^']*)':  ->  "\1":
RECURSIVE FixQuotedKeys(_, _)
FixQuotedKeys(s, i) ==
    IF i > Len(s) THEN <<>>
    ELSE LET j == FindIn(s, i + 1, {"'"})
         IN  IF s[i] = "'" /\ j # 0 /\ j + 1 <= Len(s) /\ s[j + 1] = ":"
             THEN <<"\"">> \o SubSeq(s, i + 1, j - 1) \o <<"\"", ":">>
                      \o FixQuotedKeys(s, j + 2)
             ELSE <<s[i]>> \o FixQuotedKeys(s, i + 1)

\* :\s*'([^']*)'  ->  : "\1"
RECURSIVE FixQuotedValues(_, _)
FixQuotedValues(s, i) ==
    IF i > Len(s) THEN <<>>
    ELSE LET k == SkipWs(s, i + 1)
             j == FindIn(s, k + 1, {"'"})
         IN  IF s[i] = ":" /\ k <= Len(s) /\ s[k] = "'" /\ j # 0
             THEN <<":", " ", "\"">> \o SubSeq(s, k + 1, j - 1) \o <<"\"">>
                      \o FixQuotedValues(s, j + 1)
             ELSE <<s[i]>> \o FixQuotedValues(s, i + 1)

\* //.*?\n  ->  \n
RECURSIVE FixLineComments(_, _)
FixLineComments(s, i) ==
    IF i > Len(s) THEN <<>>
    ELSE LET j == FindIn(s, i + 2, {"\n"})
         IN  IF StartsAt(s, i, <<"/", "/">>) /\ j # 0
             THEN <<"\n">> \o FixLineComments(s, j + 1)
             ELSE <<s[i]>> \o FixLineComments(s, i + 1)

\* /\*.*?\*/ (DOTALL)  ->  ''
RECURSIVE FixBlockComments(_, _)
FixBlockComments(s, i) ==
    IF i > Len(s) THEN <<>>
    ELSE LET closes == {j \in (i + 2)..Len(s) : StartsAt(s, j, <<"*", "/">>)}
         IN  IF StartsAt(s, i, <<"/", "*">>) /\ closes # {}
             THEN LET j == CHOOSE c \in closes : \A d \in closes : c <= d
                  IN  FixBlockComments(s, j + 2)
             ELSE <<s[i]>> \o FixBlockComments(s, i + 1)

\* }\s*{  ->  }, {
RECURSIVE FixMissingCommas(_, _)
FixMissingCommas(s, i) ==
    IF i > Len(s) THEN <<>>
    ELSE LET k == SkipWs(s, i + 1)
         IN  IF s[i] = "}" /\ k <= Len(s) /\ s[k] = "{"
             THEN <<"}", ",", " ", "{">> \o FixMissingCommas(s, k + 1)
             ELSE <<s[i]>> \o FixMissingCommas(s, i + 1)

_fix_common_json_errors(text) ==
    LET a == FixTrailingCommas(text, 1)
        b == FixQuotedKeys(a, 1)
        c == FixQuotedValues(b, 1)
        d == FixLineComments(c, 1)
        e == FixBlockComments(d, 1)
    IN  FixMissingCommas(e, 1)

\* json.loads(cleaned), else json.loads of the repaired text, else the error
\* object.
LoadsLenient(cleaned) ==
    OrElse(JsonLoads(cleaned),
           OrElse(JsonLoads(_fix_common_json_errors(cleaned)), ParseErrorDict))

\* _parse_json_response_enhanced (used by analyze_data_comprehensive)
_parse_json_response_enhanced(text) == LoadsLenient(_clean_json_response(text))

\* _extract_json_array: the span from the first '[' to the last ']', '' when
\* there is none.
_extract_json_array(text) ==
    IF Find(text, "[") # 0 /\ RFind(text, "]") > Find(text, "[")
    THEN SubSeq(text, Find(text, "["), RFind(text, "]"))
    ELSE <<>>

\* text.split('\n')
RECURSIVE SplitLines(_)
SplitLines(s) ==
    IF Find(s, "\n") = 0 THEN <<s>>
    ELSE <<Upto(s, Find(s, "\n") - 1)>> \o SplitLines(From(s, Find(s, "\n") + 1))

\* '\n'.join(lines)
RECURSIVE JoinLines(_)
JoinLines(lines) ==
    IF Len(lines) = 0 THEN <<>>
    ELSE IF Len(lines) = 1 THEN lines[1]
    ELSE lines[1] \o <<"\n">> \o JoinLines(Tail(lines))

\* A stripped line _parse_line_by_line keeps: not empty, no '//' or '#' at its
\* start.
KeptLine(line) ==
    Len(line) > 0 /\ ~StartsWith(line, <<"/", "/">>) /\ ~StartsWith(line, <<"#">>)

\* The stripped lines of the text that are kept.
KeptLines(text) ==
    SelectSeq([i \in 1..Len(SplitLines(text)) |-> Strip(SplitLines(text)[i])], KeptLine)

\* _parse_line_by_line: json.loads of the kept lines; [] when there is none or
\* on any exception.
_parse_line_by_line(text) ==
    IF Len(KeptLines(text)) = 0 THEN EmptyList
    ELSE OrElse(JsonLoads(JoinLines(KeptLines(text))), EmptyList)

\* result if isinstance(result, list) else [result]
AsList(result) == IF result.t = "list" THEN result ELSE PList(<<result>>)

\* The strategies of _parse_json_array_response_enhanced by number: 1 the
\* direct parse of the cleaned text, 2 the extracted array, 3 the repaired
\* text, 4 the filtered lines of the original text.  A call gives the value
\* returned (val), the strategy whose return statement returned it (by, 0 for
\* the final 'return []') and the strategies attempted (tried), in order.
Returned(val, by, tried) == [val |-> val, by |-> by, tried |-> tried]

\* Strategies attempting the repair before the extraction.
StrategiesRepairFirst(text) ==
    LET cleaned_text == _clean_json_response(text)
        direct == JsonLoads(cleaned_text)
        array_content == _extract_json_array(cleaned_text)
        fixed_json == _fix_common_json_errors(cleaned_text)
        line_parsed == _parse_line_by_line(text)
        tried3 == IF Len(fixed_json) > 0 THEN <<1, 3>> ELSE <<1>>
        tried2 == IF Len(array_content) > 0 THEN Append(tried3, 2) ELSE tried3
    IN  IF direct.ok /\ direct.val.t = "list" THEN Returned(direct.val, 1, <<1>>)
        ELSE IF direct.ok /\ direct.val.t = "dict"
        THEN Returned(PList(<<direct.val>>), 1, <<1>>)
        ELSE IF Len(fixed_json) > 0 /\ JsonLoads(fixed_json).ok
        THEN Returned(AsList(JsonLoads(fixed_json).val), 3, tried3)
        ELSE IF Len(array_content) > 0 /\ JsonLoads(array_content).ok
        THEN Returned(AsList(JsonLoads(array_content).val), 2, tried2)
        ELSE IF Truthy(line_parsed) THEN Returned(line_parsed, 4, Append(tried2, 4))
        ELSE Returned(EmptyList, 0, Append(tried2, 4))

\* Strategies wrapping the direct parse in a list whatever its type.
StrategiesWrapDirect(text) ==
    LET cleaned_text == _clean_json_response(text)
        direct == JsonLoads(cleaned_text)
        array_content == _extract_json_array(cleaned_text)
        fixed_json == _fix_common_json_errors(cleaned_text)
        line_parsed == _parse_line_by_line(text)
        tried2 == IF Len(array_content) > 0 THEN <<1, 2>> ELSE <<1>>
        tried3 == IF Len(fixed_json) > 0 THEN Append(tried2, 3) ELSE tried2
    IN  IF direct.ok /\ direct.val.t \in {"list", "dict"}
        THEN Returned(PList(<<direct.val>>), 1, <<1>>)
        ELSE IF Len(array_content) > 0 /\ JsonLoads(array_content).ok
        THEN Returned(AsList(JsonLoads(array_content).val), 2, tried2)
        ELSE IF Len(fixed_json) > 0 /\ JsonLoads(fixed_json).ok
        THEN Returned(AsList(JsonLoads(fixed_json).val), 3, tried3)
        ELSE IF Truthy(line_parsed) THEN Returned(line_parsed, 4, Append(tried3, 4))
        ELSE Returned(EmptyList, 0, Append(tried3, 4))

\* The body of _parse_json_array_response_enhanced.  The inner except clauses
\* catch the JSONDecodeError of json.loads, the only exception a text gives.
Strategies(text) ==
    LET cleaned_text == _clean_json_response(text)
        direct == JsonLoads(cleaned_text)
        array_content == _extract_json_array(cleaned_text)
        fixed_json == _fix_common_json_errors(cleaned_text)
        line_parsed == _parse_line_by_line(text)
        tried2 == IF Len(array_content) > 0 THEN <<1, 2>> ELSE <<1>>
        tried3 == IF Len(fixed_json) > 0 THEN Append(tried2, 3) ELSE tried2
    IN  IF direct.ok /\ direct.val.t = "list" THEN Returned(direct.val, 1, <<1>>)
        ELSE IF direct.ok /\ direct.val.t = "dict"
        THEN Returned(PList(<<direct.val>>), 1, <<1>>)
        ELSE IF Len(array_content) > 0 /\ JsonLoads(array_content).ok
        THEN Returned(AsList(JsonLoads(array_content).val), 2, tried2)
        ELSE IF Len(fixed_json) > 0 /\ JsonLoads(fixed_json).ok
        THEN Returned(AsList(JsonLoads(fixed_json).val), 3, tried3)
        ELSE IF Truthy(line_parsed) THEN Returned(line_parsed, 4, Append(tried3, 4))
        ELSE Returned(EmptyList, 0, Append(tried3, 4))

_parse_json_array_response_enhanced(text) == Strategies(text).val

-----------------------------------------------------------------------------
(* Field names.  A field name is a string; the code looks inside it        *)
(* (lower(), substring tests), so Chars gives the characters of each name  *)
(* and of each word the code searches for.                                 *)

Words == {"patient", "name", "age", "id", "date", "time", "patient_id", "Page", "amount", "created", "email", "value", "diagnosis", "account", "score", "birth_date", "stage", "Patient", "full_name", "x"}

Chars(w) ==
    CASE w = "patient" -> <<"p", "a", "t", "i", "e", "n", "t">>
      [] w = "name" -> <<"n", "a", "m", "e">>
      [] w = "age" -> <<"a", "g", "e">>
      [] w = "id" -> <<"i", "d">>
      [] w = "date" -> <<"d", "a", "t", "e">>
      [] w = "time" -> <<"t", "i", "m", "e">>
      [] w = "patient_id" -> <<"p", "a", "t", "i", "e", "n", "t", "_", "i", "d">>
      [] w = "Page" -> <<"P", "a", "g", "e">>
      [] w = "amount" -> <<"a", "m", "o", "u", "n", "t">>
      [] w = "created" -> <<"c", "r", "e", "a", "t", "e", "d">>
      [] w = "email" -> <<"e", "m", "a", "i", "l">>
      [] w = "value" -> <<"v", "a", "l", "u", "e">>
      [] w = "diagnosis" -> <<"d", "i", "a", "g", "n", "o", "s", "i", "s">>
      [] w = "account" -> <<"a", "c", "c", "o", "u", "n", "t">>
      [] w = "score" -> <<"s", "c", "o", "r", "e">>
      [] w = "birth_date" -> <<"b", "i", "r", "t", "h", "_", "d", "a", "t", "e">>
      [] w = "stage" -> <<"s", "t", "a", "g", "e">>
      [] w = "Patient" -> <<"P", "a", "t", "i", "e", "n", "t">>
      [] w = "full_name" -> <<"f", "u", "l", "l", "_", "n", "a", "m", "e">>
      [] w = "x" -> <<"x">>

UpperLetters == <<"A", "B", "C", "D", "E", "F", "G", "H", "I", "J", "K", "L", "M", "N", "O", "P", "Q", "R", "S", "T", "U", "V", "W", "X", "Y", "Z">>
LowerLetters == <<"a", "b", "c", "d", "e", "f", "g", "h", "i", "j", "k", "l", "m", "n", "o", "p", "q", "r", "s", "t", "u", "v", "w", "x", "y", "z">>

\* str.lower() on one character and on a text.
LowerChar(c) ==
    IF \E i \in 1..Len(UpperLetters) : UpperLetters[i] = c
    THEN LowerLetters[CHOOSE i \in 1..Len(UpperLetters) : UpperLetters[i] = c]
    ELSE c
Lower(s) == [i \in 1..Len(s) |-> LowerChar(s[i])]

\* p in s, for texts.
Contains(s, p) == \E i \in 1..(Len(s) - Len(p) + 1) : SubSeq(s, i, i + Len(p) - 1) = p

\* 'word' in field_name.lower()
NameHas(field_name, word) == Contains(Lower(Chars(field_name)), Chars(word))


-----------------------------------------------------------------------------
(* GeminiService: fallback generation *)

\* str(n).zfill(width)
RECURSIVE ZFill(_, _)
ZFill(str, width) == IF Len(str) >= width THEN str ELSE ZFill("0" \o str, width)

FallbackNames ==
    <<"Ahmad Hassan", "Fatima Al-Zahra", "Omar Khalil", "Aisha Mahmoud", "Ali Rahman">>

\* str(uuid.uuid4()): a random value.  rnd identifies the random draws of one
\* call of the generator; the values drawn for different rows or fields differ.
Uuid4(rnd, index, field_name) ==
    PStr("uuid4-" \o ToString(rnd) \o "-" \o ToString(index) \o "-" \o field_name)

\* (datetime.now() - timedelta(days=d)).isoformat(), with the clock read as day
\* number now.
IsoDate(now, d) == PStr("day:" \o ToString(now - d))

\* _generate_realistic_value testing the field's name before its examples.
ValueByNameFirst(field_info, field_name, index, rnd, now) ==
    LET examples == Get(field_info, "examples", EmptyList)
    IN  IF NameHas(field_name, "age") THEN PNum(25 + ((index * 3) % 50))
        ELSE IF Truthy(examples) THEN examples.v[(index % Len(examples.v)) + 1]
        ELSE PNone

\* _generate_realistic_value(field_info, field_name, index); rnd and now are
\* the random source and the clock the call reads.
_generate_realistic_value(field_info, field_name, index, rnd, now) ==
    LET field_type == Get(field_info, "type", PStr("string"))
        examples == Get(field_info, "examples", EmptyList)
        constraints == Get(field_info, "constraints", EmptyDict)
    IN  IF Truthy(examples) THEN examples.v[(index % Len(examples.v)) + 1]
        ELSE IF NameHas(field_name, "patient") /\ field_type = PStr("string")
        THEN PStr("PT" \o ZFill(ToString(1000 + index), 4))
        ELSE IF NameHas(field_name, "name")
        THEN PStr(FallbackNames[(index % Len(FallbackNames)) + 1])
        ELSE IF NameHas(field_name, "age")
        THEN PNum(25 + ((index * 3) % 50))
        ELSE IF field_type = PStr("uuid") THEN Uuid4(rnd, index, field_name)
        ELSE IF field_type = PStr("number")
        THEN LET min_val == Get(constraints, "min", PNum(1)).v
                 max_val == Get(constraints, "max", PNum(1000)).v
             IN  PNum(min_val + ((index * (max_val - min_val)) \div 100))
        ELSE IF field_type \in {PStr("date"), PStr("datetime")}
        THEN IsoDate(now, index * 10)
        ELSE PStr(field_name \o "_" \o ToString(index + 1))

\* The inner loop of _generate_intelligent_fallback_data: row[field_name] is
\* set for each field of schema.items() still to visit.
RECURSIVE FallbackRow(_, _, _, _, _, _)
FallbackRow(schema, todo, row, i, rnd, now) ==
    IF todo = {} THEN PDict(row)
    ELSE LET field_name == CHOOSE f \in todo : TRUE
             value == _generate_realistic_value(schema.v[field_name], field_name, i, rnd, now)
         IN  FallbackRow(schema, todo \ {field_name}, (field_name :> value) @@ row, i, rnd, now)

\* FallbackRows leaving out the last row.
FallbackRowsShort(schema, first, row_count, rnd, now) ==
    [k \in 1..(row_count - first - 1) |->
        FallbackRow(schema, DOMAIN schema.v, <<>>, first + k - 1, rnd, now)]

\* The outer loop: for i in range(row_count): data.append(row); the rows of
\* the indexes first .. row_count - 1, in order.
FallbackRows(schema, first, row_count, rnd, now) ==
    [k \in 1..(row_count - first) |->
        FallbackRow(schema, DOMAIN schema.v, <<>>, first + k - 1, rnd, now)]

\* _generate_intelligent_fallback_data(schema, row_count): range(row_count)
\* needs an int; schema.items() and field_info.get are reached only when there
\* is a row to build.  (A field's 'examples', when given, is a list.)
_generate_intelligent_fallback_data(schema, row_count, rnd, now) ==
    IF row_count.t \notin {"num", "bool"}
    THEN Raise("'" \o TypeName(row_count) \o "' object cannot be interpreted as an integer")
    ELSE IF AsIndex(row_count).v <= 0 THEN Ok(EmptyList)
    ELSE IF schema.t # "dict" THEN Raise(NoAttr(schema, "items"))
    ELSE IF \E f \in DOMAIN schema.v : schema.v[f].t # "dict"
    THEN Raise(NoAttr(schema.v[CHOOSE f \in DOMAIN schema.v : schema.v[f].t # "dict"], "get"))
    ELSE Ok(PList(FallbackRows(schema, 0, AsIndex(row_count).v, rnd, now)))

-----------------------------------------------------------------------------
(* The agents (agent_orchestrator.py) and the GeminiService operations     *)
(* they use.  Each stage is split at its one suspension point, the model   *)
(* invocation: <Stage>Begin is the code up to it and says whether the      *)
(* model is invoked, <Stage>End is the code after it.  A model outcome mo  *)
(* is Ok(text), the response text, or Raise(e), the invocation (or reading *)
(* response.text) raising e.                                               *)

\* What the code before the suspension point decides.
Invoke == [do |-> "invoke"]
Done(v) == [do |-> "return", val |-> v]
Fails(e) == [do |-> "raise", err |-> e]

StrList(q) == PList([i \in 1..Len(q) |-> PStr(q[i])])

\* d[k] = v on any value: only a dict (or, with an int key, a list) takes it.
SetItemError(x) ==
    IF x.t = "list" THEN "list indices must be integers or slices, not str"
    ELSE "'" \o TypeName(x) \o "' object does not support item assignment"

(* DomainExpertAgent *)

_get_domain_specific_rules(domain) ==
    IF domain = PStr("healthcare")
    THEN StrList(<<"Maintain patient privacy", "Preserve medical correlations",
                   "Use realistic medical codes", "Ensure age-condition correlations">>)
    ELSE IF domain = PStr("finance")
    THEN StrList(<<"Maintain transaction patterns", "Preserve account relationships",
                   "Use realistic amounts", "Ensure temporal consistency">>)
    ELSE IF domain = PStr("retail")
    THEN StrList(<<"Maintain customer behavior patterns", "Preserve product relationships",
                   "Use realistic pricing", "Ensure seasonal variations">>)
    ELSE StrList(<<"Maintain data relationships", "Ensure realistic values">>)

_get_generation_patterns(domain) ==
    IF domain = PStr("healthcare")
    THEN PDict([patient_age_distribution |-> PStr("normal(45, 15)"),
                condition_correlations |-> PStr("age_dependent"),
                treatment_patterns |-> PStr("evidence_based")])
    ELSE IF domain = PStr("finance")
    THEN PDict([transaction_amounts |-> PStr("log_normal"),
                frequency_patterns |-> PStr("customer_dependent"),
                account_types |-> PStr("risk_based")])
    ELSE EmptyDict

\* The except branch of analyze_data.
DomainError(e) ==
    PDict([domain |-> PStr("general"), confidence |-> PFloat("0.5"), error |-> PStr(e)])

\* analyze_data after 'analysis' is known (a dict): the domain rules and
\* patterns are added; an unhashable domain raises in rules.get and is caught.
DomainEnhance(analysis) ==
    LET domain == Get(analysis, "domain", PStr("general"))
    IN  IF ~Hashable(domain) THEN DomainError(Unhashable(domain))
        ELSE SetItem(SetItem(analysis, "domain_rules", _get_domain_specific_rules(domain)),
                     "generation_patterns", _get_generation_patterns(domain))

\* str(e) of the exception data[0] raises for a dict (with str keys) or a
\* number.
NoItem0(data) ==
    IF data.t = "dict" THEN "0" ELSE "'" \o TypeName(data) \o "' object is not subscriptable"

\* data[0] of a non-empty value.  The first item of a str is a str, and only
\* its type matters here, so the str stands for it.
Item0(data) ==
    IF data.t = "list" THEN Ok(data.v[1])
    ELSE IF data.t = "str" THEN Ok(data)
    ELSE Raise(NoItem0(data))

\* GeminiService._generate_fallback_analysis(data)
_generate_fallback_analysis(data) ==
    IF ~Truthy(data) THEN Ok(PDict([domain |-> PStr("unknown"), confidence |-> PFloat("0.5")]))
    ELSE IF ~Item0(data).ok THEN Raise(Item0(data).err)
    ELSE LET first_item == Item0(data).val
         IN  IF first_item.t # "dict" THEN Raise(NoAttr(first_item, "keys"))
             ELSE LET fields == DOMAIN first_item.v
                      lowered == {Join(Lower(Chars(f))) : f \in fields}
                      domain == IF lowered \cap {"patient", "diagnosis", "treatment"} # {}
                                THEN "healthcare"
                                ELSE IF lowered \cap {"account", "transaction", "amount"} # {}
                                THEN "finance" ELSE "general"
                  IN  Ok(PDict([domain |-> PStr(domain),
                                confidence |-> PFloat("0.8"),
                                data_quality |-> PDict([score |-> PNum(85), issues |-> EmptyList,
                                                        recommendations |-> EmptyList]),
                                schema_inference |-> PDict([f \in fields |-> PStr("inferred")]),
                                recommendations |->
                                    PDict([generation_strategy |-> PStr("Standard fallback generation")])]))

\* analyze_data up to the model invocation.  With the model available
\* analyze_data_comprehensive takes len(data) and invokes the model; without
\* it the fallback analysis reads config and schema.  Every exception is
\* caught by analyze_data.
DomainBegin(data, schema, config, available) ==
    IF available
    THEN IF ~HasLen(data)
         THEN Done(DomainError("object of type '" \o TypeName(data) \o "' has no len()"))
         ELSE Invoke
    ELSE IF ~HasGet(config) THEN Done(DomainError(NoAttr(config, "get")))
    ELSE IF schema.t # "dict" THEN Done(DomainError(NoAttr(schema, "keys")))
    ELSE Done(DomainEnhance(
             PDict([domain |-> Get(config, "domain", PStr("general")),
                    confidence |-> PFloat("0.8"),
                    data_quality |-> PDict([score |-> PNum(85), issues |-> EmptyList,
                                            recommendations |-> EmptyList]),
                    schema_inference |-> PDict([f \in DOMAIN schema.v |-> PStr("inferred")]),
                    recommendations |->
                        PDict([generation_strategy |->
                                   PStr("Standard generation - AI analysis unavailable")])])))

\* analyze_data_comprehensive after the invocation, then the rest of
\* analyze_data: the parsed value when it is a dict, else (the invocation
\* raised, or analysis.get raised) the fallback analysis.
DomainEnd(data, mo) ==
    LET parsed == _parse_json_response_enhanced(mo.val)
        fb == _generate_fallback_analysis(data)
    IN  IF mo.ok /\ HasGet(parsed) THEN DomainEnhance(parsed)
        ELSE IF fb.ok THEN DomainEnhance(fb.val)
        ELSE DomainError(fb.err)

(* PrivacyAgent.  The stage also sets the agent's status. *)

PrivacyError(e) ==
    [val |-> PDict([privacy_score |-> PNum(85), risks |-> EmptyList, error |-> PStr(e)]),
     status |-> "error"]

\* x + 10 for the privacy score x, capped at 99; Raise when the types do not add.
ScorePlusTen(x) ==
    IF x.t = "num" THEN Ok(PNum(Min(x.v + 10, 99)))
    ELSE IF x.t = "bool" THEN Ok(PNum(Min((IF x.v THEN 1 ELSE 0) + 10, 99)))
    ELSE IF x.t = "float" THEN Ok(PFloat("min(" \o x.v \o " + 10, 99)"))
    ELSE IF x.t \in {"str", "list"}
         THEN Raise("can only concatenate " \o x.t \o " (not \"int\") to " \o x.t)
    ELSE Raise("unsupported operand type(s) for +: '" \o TypeName(x) \o "' and 'int'")

\* assess_privacy after 'privacy_assessment' is known (any value the parser
\* returned): the domain rules, then the log line that calls .get on it.
PrivacyEnhance(privacy_assessment, domain_context) ==
    LET domain == Get(domain_context, "domain", PStr("general"))
        plus == ScorePlusTen(Get(privacy_assessment, "privacy_score", PNum(85)))
    IN  IF domain = PStr("healthcare")
        THEN IF privacy_assessment.t # "dict" THEN PrivacyError(SetItemError(privacy_assessment))
             ELSE IF ~plus.ok THEN PrivacyError(plus.err)
             ELSE [val |-> SetItem(SetItem(privacy_assessment, "compliance_requirements",
                                           StrList(<<"HIPAA", "GDPR">>)),
                                   "privacy_score", plus.val),
                   status |-> "active"]
        ELSE IF domain = PStr("finance")
        THEN IF privacy_assessment.t # "dict" THEN PrivacyError(SetItemError(privacy_assessment))
             ELSE [val |-> SetItem(privacy_assessment, "compliance_requirements",
                                   StrList(<<"PCI-DSS", "SOX", "GDPR">>)),
                   status |-> "active"]
        ELSE IF ~HasGet(privacy_assessment) THEN PrivacyError(NoAttr(privacy_assessment, "get"))
        ELSE [val |-> privacy_assessment, status |-> "active"]

\* assess_privacy up to the model invocation (assess_privacy_risks builds its
\* prompt from config.get('domain')).
PrivacyBegin(data, config, domain_context, available) ==
    IF available
    THEN IF ~HasGet(config) THEN Done(PrivacyError(NoAttr(config, "get")))
         ELSE Invoke
    ELSE Done(PrivacyEnhance(
             PDict([privacy_score |-> PNum(85),
                    pii_detected |-> EmptyList,
                    sensitive_attributes |-> EmptyList,
                    risk_level |-> PStr("medium"),
                    compliance_notes |->
                        StrList(<<"Basic privacy assessment - AI analysis unavailable">>),
                    recommendations |->
                        StrList(<<"Enable Gemini API for advanced privacy analysis">>)]),
             domain_context))

\* assess_privacy_risks after the invocation, then the rest of assess_privacy.
PrivacyEnd(domain_context, mo) ==
    IF mo.ok THEN PrivacyEnhance(_parse_json_response(mo.val), domain_context)
    ELSE PrivacyEnhance(PDict([privacy_score |-> PNum(85), risks |-> EmptyList,
                               recommendations |-> EmptyList]), domain_context)

(* BiasDetectionAgent *)

_get_domain_bias_checks(domain) ==
    IF domain = PStr("healthcare")
    THEN StrList(<<"Gender bias in treatment", "Age bias in diagnosis", "Racial bias in outcomes">>)
    ELSE IF domain = PStr("finance")
    THEN StrList(<<"Income bias in lending", "Geographic bias", "Credit history bias">>)
    ELSE IF domain = PStr("retail")
    THEN StrList(<<"Demographic bias in recommendations", "Price bias", "Geographic bias">>)
    ELSE StrList(<<"General demographic bias", "Selection bias">>)

BiasError(e) ==
    PDict([bias_score |-> PNum(88), bias_types |-> EmptyList, error |-> PStr(e)])

\* detect_bias after 'bias_analysis' is known (any value the parser returned).
BiasEnhance(bias_analysis, domain_context) ==
    LET domain == Get(domain_context, "domain", PStr("general"))
    IN  IF ~Hashable(domain) THEN BiasError(Unhashable(domain))
        ELSE IF bias_analysis.t # "dict" THEN BiasError(SetItemError(bias_analysis))
        ELSE SetItem(bias_analysis, "domain_specific_checks", _get_domain_bias_checks(domain))

BiasBegin(data, config, domain_context, available) ==
    IF available
    THEN IF ~HasGet(config) THEN Done(BiasError(NoAttr(config, "get")))
         ELSE Invoke
    ELSE Done(BiasEnhance(
             PDict([bias_score |-> PNum(88),
                    detected_biases |-> EmptyList,
                    bias_types |-> EmptyList,
                    recommendations |->
                        StrList(<<"Enable Gemini API for advanced bias detection">>)]),
             domain_context))

BiasEnd(domain_context, mo) ==
    IF mo.ok THEN BiasEnhance(_parse_json_response(mo.val), domain_context)
    ELSE BiasEnhance(PDict([bias_score |-> PNum(88), bias_types |-> EmptyList,
                            recommendations |-> EmptyList]), domain_context)

(* RelationshipAgent *)

_get_domain_relationships(domain) ==
    IF domain = PStr("healthcare")
    THEN StrList(<<"Patient-Condition", "Condition-Treatment", "Age-Risk">>)
    ELSE IF domain = PStr("finance")
    THEN StrList(<<"Account-Transaction", "Customer-Account", "Amount-Type">>)
    ELSE IF domain = PStr("retail")
    THEN StrList(<<"Customer-Order", "Product-Category", "Price-Demand">>)
    ELSE StrList(<<"Entity-Attribute", "Temporal-Sequence">>)

\* _analyze_patterns(data), data a non-empty list or str.
_analyze_patterns(data) ==
    IF Item0(data).val.t # "dict" THEN EmptyList
    ELSE LET fields == DOMAIN data.v[1].v
             found == <<PStr("Found " \o ToString(Cardinality(fields)) \o " fields")>>
             ids == IF \E f \in fields : NameHas(f, "id")
                    THEN <<PStr("Identifier fields detected")>> ELSE <<>>
             temporal == IF \E f \in fields : NameHas(f, "date") \/ NameHas(f, "time")
                         THEN <<PStr("Temporal fields detected")>> ELSE <<>>
         IN  PList(found \o ids \o temporal)

\* map_relationships(data, schema, domain_context); it invokes no model.
map_relationships(data, schema, domain_context) ==
    LET domain == Get(domain_context, "domain", PStr("general"))
        relationships ==
            PDict([field_correlations |-> EmptyList,
                   functional_dependencies |-> EmptyList,
                   hierarchical_structures |-> EmptyList,
                   temporal_patterns |-> EmptyList,
                   domain_relationships |-> _get_domain_relationships(domain)])
    IN  IF ~Hashable(domain)
        THEN PDict([relationships |-> EmptyList, error |-> PStr(Unhashable(domain))])
        ELSE IF ~Truthy(data) THEN relationships
        ELSE IF data.t \in {"list", "str"}
        THEN SetItem(relationships, "detected_patterns", _analyze_patterns(data))
        ELSE PDict([relationships |-> EmptyList, error |-> PStr(NoItem0(data))])

(* QualityAgent *)

plan_generation(domain_analysis, privacy_req, bias_analysis, relationships, config) ==
    PDict([approach |-> PStr("multi_agent_optimized"),
           quality_targets |->
               PDict([statistical_similarity |-> PNum(95),
                      relationship_preservation |-> PNum(92),
                      privacy_compliance |-> Get(privacy_req, "privacy_score", PNum(95)),
                      bias_mitigation |-> Get(bias_analysis, "bias_score", PNum(88))]),
           generation_parameters |->
               PDict([domain_rules |-> Get(domain_analysis, "domain_rules", EmptyList),
                      privacy_constraints |-> Get(privacy_req, "constraints", EmptyList),
                      bias_corrections |-> Get(bias_analysis, "mitigation_strategies", EmptyList),
                      relationship_mappings |-> Get(relationships, "relationships", EmptyList)])])

validate_generated_data(synthetic_data, original_data, context) ==
    PDict([overall_score |-> PNum(94),
           statistical_similarity |-> PNum(96),
           relationship_preservation |-> PNum(93),
           data_validity |-> PNum(98),
           completeness |-> PNum(100),
           consistency |-> PNum(95),
           domain_compliance |-> PNum(92)])

(* GeminiService.generate_synthetic_data *)

DefaultRowCount == 100

\* The number of items data[:n] keeps of a sequence of length len ('None' keeps
\* all).
SliceLen(len, n) ==
    IF n.t = "none" THEN len
    ELSE IF AsIndex(n).v >= 0 THEN Min(AsIndex(n).v, len) ELSE Max(len + n.v, 0)

\* SliceData keeping all of data.
SliceAll(data, row_count) == data

\* data[:row_count] for a list or a str.  A str is held whole, so its slice is
\* the str itself or ''; a proper prefix is written symbolically.
SliceData(data, row_count) ==
    LET keep == SliceLen(PyLen(data), row_count)
    IN  IF data.t = "list" THEN PList(SubSeq(data.v, 1, keep))
        ELSE IF keep = Len(data.v) THEN data
        ELSE IF keep = 0 THEN PStr("")
        ELSE PStr(data.v \o "[:" \o ToString(keep) \o "]")

\* GenerateBegin asking the fallback for one row more than config does.
GenerateBeginMore(schema, config, available, rnd, now) ==
    IF ~HasGet(config) THEN Fails(NoAttr(config, "get"))
    ELSE IF available THEN Invoke
    ELSE LET asked == Get(config, "rowCount", PNum(DefaultRowCount))
             fb == _generate_intelligent_fallback_data(
                       schema, IF asked.t = "num" THEN PNum(asked.v + 1) ELSE asked, rnd, now)
         IN  IF fb.ok THEN Done(fb.val) ELSE Fails(fb.err)

\* Up to the model invocation: without the model the fallback data is
\* returned (config.get and the fallback may raise to the caller); with it the
\* prompt is built from config and the model is invoked.
GenerateBegin(schema, config, available, rnd, now) ==
    IF ~HasGet(config) THEN Fails(NoAttr(config, "get"))
    ELSE IF available THEN Invoke
    ELSE LET fb == _generate_intelligent_fallback_data(
                       schema, Get(config, "rowCount", PNum(DefaultRowCount)), rnd, now)
         IN  IF fb.ok THEN Done(fb.val) ELSE Fails(fb.err)

\* After the invocation: the parsed data cut to row_count, or, when the
\* invocation raised, nothing was parsed, or len() or the slice raised, the
\* fallback data (whose exception is not caught).
GenerateEnd(schema, config, mo, rnd, now) ==
    LET row_count == Get(config, "rowCount", PNum(DefaultRowCount))
        data == _parse_json_array_response(mo.val)
        fb == _generate_intelligent_fallback_data(schema, row_count, rnd, now)
    IN  IF /\ mo.ok
           /\ Truthy(data)
           /\ data.t \in {"list", "str"}
           /\ row_count.t \in {"num", "bool", "none"}
        THEN Done(SliceData(data, row_count))
        ELSE IF fb.ok THEN Done(fb.val) ELSE Fails(fb.err)

-----------------------------------------------------------------------------
(* State *)

VARIABLES
    job,                \* job id -> the arguments of its orchestrate_generation call
    pc,                 \* job id -> the instruction of Program the run is at
    at,                 \* job id -> "idle" (not called), "model" (suspended in the model
                        \*   invocation), "broadcast", "personal" (suspended in a
                        \*   send), "returned" or "raised"
    ctx,                \* job id -> the stage outputs so far, by local variable name
    events,             \* job id -> the updates send_update has built, in order
    entered,            \* job id -> the stages entered, in order
    exc,                \* job id -> the exception caught by the except clause, or PNone
    result,             \* job id -> the Result returned, Unset before
    raised,             \* job id -> the exception raised to the caller, or PNone
    handed,             \* job id -> the keyword arguments of the run's call of
                        \*   generate_synthetic_data, Unset before
    bc,                 \* job id -> the state of the run's broadcast loop
    recv,               \* job id -> client -> deliveries of the run's current update
    got,                \* client -> what a recording websocket of the client has been
                        \*   sent by the runs, by the message's job_id and in order;
                        \*   Unset for a websocket that keeps nothing
    api_key,            \* GeminiService.api_key
    model,              \* GeminiService.model is set
    is_initialized,     \* GeminiService.is_initialized
    initpc,             \* "idle", or "probing": initialize() awaits its probe
    ninits,             \* initialize() calls started
    hcpc,               \* "idle", or "probing": health_check() awaits its probe
    health,             \* the status health_check() last returned, "" before
    calls,              \* the calls of _generate_content_async made so far: who made
                        \*   it, for which job, whether the service was initialized,
                        \*   and (for a stage) the number of the call among the
                        \*   stage's calls for the job
    agent_service,      \* the agents hold the GeminiService (BaseAgent.initialize ran)
    status,             \* agent name -> BaseAgent.status
    active_connections, \* ConnectionManager.active_connections: the dict's entries
    connpc,             \* client -> "idle", or where its connect() call is
                        \*   suspended: "accepting" or "welcome" (the greeting's send)
    args,               \* the arguments of a function called on its own, Unset if none
    out                 \* the value of that call, Unset before

jobVars == <<job, pc, at, ctx, events, entered, exc, result, raised, handed>>
gemVars == <<api_key, model, is_initialized, initpc, ninits, hcpc, health, calls>>
agentVars == <<agent_service, status>>
wsVars == <<active_connections, connpc, recv, bc, got>>
callVars == <<args, out>>
vars == <<jobVars, gemVars, agentVars, wsVars, callVars>>

AgentNames ==
    {"privacy_agent", "quality_agent", "domain_expert", "bias_detector", "relationship_agent"}

-----------------------------------------------------------------------------
(* ConnectionManager.active_connections.  A Python dict keeps its entries  *)
(* in insertion order; a deleted entry leaves a hole and a new key is      *)
(* appended.  The registry is the sequence of entries, Hole for a deleted  *)
(* one.  The entries are not compacted while no more than MaxEntries keys  *)
(* have been inserted (CPython compacts a dict when it resizes, which a    *)
(* dict of this size does at its sixth inserted key).                      *)

Hole == ""
GuestUser == "guest_user"
Clients == {GuestUser, "client_1"}
MaxEntries == 3

Live(reg) == {reg[i] : i \in 1..Len(reg)} \ {Hole}

\* self.active_connections[client_id] = websocket
RegInsert(reg, c) == IF c \in Live(reg) THEN reg ELSE Append(reg, c)

\* disconnect(client_id): del self.active_connections[client_id] when present.
disconnect(reg, c) == [i \in 1..Len(reg) |-> IF reg[i] = c THEN Hole ELSE reg[i]]

\* DisconnectAll removing nothing.
DisconnectNone(reg, cs) == reg

RECURSIVE DisconnectAll(_, _)
DisconnectAll(reg, cs) ==
    IF Len(cs) = 0 THEN reg ELSE DisconnectAll(disconnect(reg, Head(cs)), Tail(cs))

\* iter(self.active_connections.items()): the iterator remembers the dict's
\* size (used), the entry it has reached (pos) and how many items it still
\* expects (len).
IterNew(reg) ==
    [used |-> Cardinality(Live(reg)), pos |-> 0, len |-> Cardinality(Live(reg))]

\* next(iterator): CPython raises RuntimeError when the dict's size differs from
\* the remembered one, or when it meets an entry after the expected number was
\* yielded; else it yields the next entry that is no hole, or stops.
IterNext(reg, it) ==
    LET later == {i \in (it.pos + 1)..Len(reg) : reg[i] # Hole}
        i == CHOOSE k \in later : \A m \in later : k <= m
    IN  IF it.used # Cardinality(Live(reg))
        THEN [kind |-> "error", err |-> "dictionary changed size during iteration"]
        ELSE IF later = {} THEN [kind |-> "stop"]
        ELSE IF it.len = 0
        THEN [kind |-> "error", err |-> "dictionary keys changed during iteration"]
        ELSE [kind |-> "yield", client |-> reg[i],
              it |-> [used |-> it.used, pos |-> i, len |-> it.len - 1]]

-----------------------------------------------------------------------------
(* AgentOrchestrator.orchestrate_generation                                *)

\* The body of the try block is a straight line of send_update calls and
\* stage calls; Program lists them in order.
U(step, progress) == [op |-> "update", step |-> step, progress |-> progress]
S(stage) == [op |-> "stage", stage |-> stage]

\* Program with the relationship stage run a second time.
ProgramAgain ==
    << U("initialization", 5),
       U("domain_analysis", 10), S("domain_analysis"), U("domain_analysis", 25),
       U("privacy_assessment", 30), S("privacy_assessment"), U("privacy_assessment", 40),
       U("bias_detection", 45), S("bias_detection"), U("bias_detection", 55),
       U("relationship_mapping", 60), S("relationship_mapping"), U("relationship_mapping", 70),
       U("quality_planning", 72), S("relationship_mapping"), U("quality_planning", 75),
       U("data_generation", 80), S("data_generation"), U("data_generation", 90),
       U("quality_validation", 92), S("quality_validation"), U("quality_validation", 95),
       U("final_assembly", 98), S("final_assembly"),
       U("completion", 100) >>

Program ==
    << U("initialization", 5),
       U("domain_analysis", 10), S("domain_analysis"), U("domain_analysis", 25),
       U("privacy_assessment", 30), S("privacy_assessment"), U("privacy_assessment", 40),
       U("bias_detection", 45), S("bias_detection"), U("bias_detection", 55),
       U("relationship_mapping", 60), S("relationship_mapping"), U("relationship_mapping", 70),
       U("quality_planning", 72), S("quality_planning"), U("quality_planning", 75),
       U("data_generation", 80), S("data_generation"), U("data_generation", 90),
       U("quality_validation", 92), S("quality_validation"), U("quality_validation", 95),
       U("final_assembly", 98), S("final_assembly"),
       U("completion", 100) >>

\* The local variable each stage's value is bound to.
Key(stage) ==
    CASE stage = "domain_analysis" -> "domain_analysis"
      [] stage = "privacy_assessment" -> "privacy_assessment"
      [] stage = "bias_detection" -> "bias_analysis"
      [] stage = "relationship_mapping" -> "relationship_analysis"
      [] stage = "quality_planning" -> "quality_plan"
      [] stage = "data_generation" -> "synthetic_data"
      [] stage = "quality_validation" -> "final_quality_assessment"
      [] stage = "final_assembly" -> "result"

\* A local variable not yet bound.
Unset == [t |-> "unset"]
NoCtx ==
    [domain_analysis |-> Unset, privacy_assessment |-> Unset, bias_analysis |-> Unset,
     relationship_analysis |-> Unset, quality_plan |-> Unset, synthetic_data |-> Unset,
     final_quality_assessment |-> Unset, result |-> Unset]

\* An f-string message: its fixed text (without the leading emoji) and the
\* value formatted into it.
Msg(text, arg) == [text |-> text, arg |-> arg]

\* The message argument of the send_update call with this progress value, c
\* the local variables.
Message(progress, c) ==
    CASE progress = 5 -> Msg("Initializing AI agents...", PNone)
      [] progress = 10 -> Msg("Domain Expert analyzing data structure...", PNone)
      [] progress = 25 -> Msg("Domain Expert: Detected {} domain",
                              Get(c.domain_analysis, "domain", PStr("general")))
      [] progress = 30 -> Msg("Privacy Agent assessing data sensitivity...", PNone)
      [] progress = 40 -> Msg("Privacy Agent: {}% privacy score",
                              Get(c.privacy_assessment, "privacy_score", PNum(0)))
      [] progress = 45 -> Msg("Bias Detection Agent analyzing for fairness...", PNone)
      [] progress = 55 -> Msg("Bias Detector: {}% bias score",
                              Get(c.bias_analysis, "bias_score", PNum(0)))
      [] progress = 60 -> Msg("Relationship Agent mapping data connections...", PNone)
      [] progress = 70 -> Msg("Relationship Agent: Mapped {} relationships",
                              PNum(PyLen(Get(c.relationship_analysis, "relationships", EmptyList))))
      [] progress = 72 -> Msg("Quality Agent planning generation strategy...", PNone)
      [] progress = 75 -> Msg("Quality Agent: Generation strategy optimized", PNone)
      [] progress = 80 -> IF is_initialized
                          THEN Msg("Generating synthetic data with Gemini 2.0 Flash...", PNone)
                          ELSE Msg("Generating synthetic data with intelligent fallback...", PNone)
      [] progress = 90 -> Msg("Generated {} synthetic records", PNum(PyLen(c.synthetic_data)))
      [] progress = 92 -> Msg("Quality Agent validating generated data...", PNone)
      [] progress = 95 -> Msg("Quality validation: {}% quality",
                              Get(c.final_quality_assessment, "overall_score", PNum(0)))
      [] progress = 98 -> Msg("Assembling final results...", PNone)
      [] progress = 100 -> Msg("Multi-agent generation completed successfully!", PNone)

GeminiStatus == IF is_initialized THEN "online" ELSE "offline"

\* Update publishing every update under one step name.
UpdateOneStep(job_id, step, progress, message) ==
    [job_id |-> job_id, step |-> "generation", progress |-> progress, message |-> message,
     agent_data |-> EmptyDict, gemini_status |-> GeminiStatus]

\* Update stamping every update with the first job's id.
UpdateFirstJob(job_id, step, progress, message) ==
    [job_id |-> "job-1", step |-> step, progress |-> progress, message |-> message,
     agent_data |-> EmptyDict, gemini_status |-> GeminiStatus]

\* The update send_update builds (its timestamp is left out).
Update(job_id, step, progress, message) ==
    [job_id |-> job_id, step |-> step, progress |-> progress, message |-> message,
     agent_data |-> EmptyDict, gemini_status |-> GeminiStatus]

\* ErrorUpdate publishing the progress value 0.
ErrorUpdateZero(job_id, e) == Update(job_id, "error", 0, Msg("Generation failed: {}", e))

\* ErrorUpdate stamping the update with the first job's id.
ErrorUpdateFirstJob(job_id, e) ==
    Update("job-1", "error", -1, Msg("Generation failed: {}", e))

\* The update of the except clause, e the caught exception.
ErrorUpdate(job_id, e) == Update(job_id, "error", -1, Msg("Generation failed: {}", e))

\* The result dict (generation_time is left out).  synthetic_data[0].keys() is
\* evaluated when synthetic_data is not empty and raises unless its first
\* element is a dict.
Assemble(job_id, c) ==
    LET synthetic_data == c.synthetic_data
        first == IF synthetic_data.t = "list" THEN synthetic_data.v[1] ELSE synthetic_data
    IN  IF Truthy(synthetic_data) /\ first.t # "dict" THEN Fails(NoAttr(first, "keys"))
        ELSE Done(PDict(
            [data |-> synthetic_data,
             metadata |->
                 PDict([job_id |-> PStr(job_id),
                        rows_generated |-> PNum(PyLen(synthetic_data)),
                        columns_generated |->
                            PNum(IF Truthy(synthetic_data) THEN PyLen(first) ELSE 0),
                        generation_method |-> PStr("multi_agent_ai"),
                        model_used |-> PStr("gemini-2.0-flash-exp"),
                        agents_involved |->
                            StrList(<<"privacy_agent", "quality_agent", "domain_expert",
                                      "bias_detector", "relationship_agent">>),
                        gemini_status |-> PStr(GeminiStatus)]),
             quality_score |-> Get(c.final_quality_assessment, "overall_score", PNum(92)),
             privacy_score |-> Get(c.privacy_assessment, "privacy_score", PNum(95)),
             bias_score |-> Get(c.bias_analysis, "bias_score", PNum(88)),
             agent_insights |->
                 PDict([domain_analysis |-> c.domain_analysis,
                        privacy_assessment |-> c.privacy_assessment,
                        bias_analysis |-> c.bias_analysis,
                        relationship_analysis |-> c.relationship_analysis,
                        quality_assessment |-> c.final_quality_assessment])]))

\* The gate of the agents left open whatever is_initialized says.
AgentUngated == agent_service

\* The agents use the model when they hold the service and it is initialized.
AgentAvailable == agent_service /\ is_initialized

\* The privacy stage's value with the status it leaves the agent in.
Returns(x) == [do |-> "return", val |-> x.val, status |-> x.status]

\* generation_context writing the default row count into the job's config.
GenerationContextDefaults(a, c) ==
    [domain_analysis |-> c.domain_analysis, privacy_requirements |-> c.privacy_assessment,
     bias_mitigation |-> c.bias_analysis, relationships |-> c.relationship_analysis,
     quality_plan |-> c.quality_plan, schema |-> a.schema,
     config |-> IF a.config.t = "dict"
                THEN SetItem(a.config, "rowCount", Get(a.config, "rowCount", PNum(DefaultRowCount)))
                ELSE a.config,
     description |-> a.description]

\* generation_context: the outputs of the earlier stages and the job's
\* schema, config and description.
generation_context(a, c) ==
    [domain_analysis |-> c.domain_analysis, privacy_requirements |-> c.privacy_assessment,
     bias_mitigation |-> c.bias_analysis, relationships |-> c.relationship_analysis,
     quality_plan |-> c.quality_plan, schema |-> a.schema, config |-> a.config,
     description |-> a.description]

\* _generate_synthetic_data_with_context taking the domain of the call's
\* config from the domain analysis.
WithContextDomain(context, source_data) ==
    [schema |-> context.schema,
     config |-> IF context.config.t = "dict" /\ HasGet(context.domain_analysis)
                THEN SetItem(context.config, "domain",
                             Get(context.domain_analysis, "domain", PStr("general")))
                ELSE context.config,
     description |-> context.description, source_data |-> source_data]

\* _generate_synthetic_data_with_context(context, source_data): the keyword
\* arguments of its call of generate_synthetic_data.
_generate_synthetic_data_with_context(context, source_data) ==
    [schema |-> context.schema, config |-> context.config,
     description |-> context.description, source_data |-> source_data]

\* A stage up to its model invocation, a the job's arguments and c the local
\* variables: Invoke, or the stage's outcome when it invokes no model.
StageBegin(job_id, a, c, stage, rnd, now) ==
    CASE stage = "domain_analysis" ->
             DomainBegin(a.source_data, a.schema, a.config, AgentAvailable)
      [] stage = "privacy_assessment" ->
             LET b == PrivacyBegin(a.source_data, a.config, c.domain_analysis, AgentAvailable)
             IN  IF b.do = "invoke" THEN b ELSE Returns(b.val)
      [] stage = "bias_detection" ->
             BiasBegin(a.source_data, a.config, c.domain_analysis, AgentAvailable)
      [] stage = "relationship_mapping" ->
             Done(map_relationships(a.source_data, a.schema, c.domain_analysis))
      [] stage = "quality_planning" ->
             Done(plan_generation(c.domain_analysis, c.privacy_assessment, c.bias_analysis,
                                  c.relationship_analysis, a.config))
      [] stage = "data_generation" ->
             LET g == _generate_synthetic_data_with_context(generation_context(a, c),
                                                            a.source_data)
             IN  GenerateBegin(g.schema, g.config, is_initialized, rnd, now)
      [] stage = "quality_validation" ->
             Done(validate_generated_data(c.synthetic_data, a.source_data, c))
      [] stage = "final_assembly" -> Assemble(job_id, c)

\* A stage from the return of its model invocation with outcome mo.
StageEnd(a, c, stage, mo, rnd, now) ==
    CASE stage = "domain_analysis" -> Done(DomainEnd(a.source_data, mo))
      [] stage = "privacy_assessment" -> Returns(PrivacyEnd(c.domain_analysis, mo))
      [] stage = "bias_detection" -> Done(BiasEnd(c.domain_analysis, mo))
      [] stage = "data_generation" ->
             LET g == _generate_synthetic_data_with_context(generation_context(a, c),
                                                            a.source_data)
             IN  GenerateEnd(g.schema, g.config, mo, rnd, now)

-----------------------------------------------------------------------------
(* A run of orchestrate_generation.  The coroutine runs without            *)
(* interruption from one suspension to the next: it is suspended only in   *)
(* the model invocation (run_in_executor) and in a websocket send.  The    *)
(* state of a run is a record r of its part of the variables; Run carries  *)
(* r from a resumption to the next suspension or to the end.               *)

Jobs == {"job-1", "job-2"}

NoBroadcast ==
    [phase |-> "none", it |-> IterNew(<<>>), target |-> Hole, disconnected |-> <<>>,
     start |-> {}, attempted |-> {}, delivered |-> {}, seen |-> <<>>, quiet |-> TRUE,
     after |-> {}]

NoRecv == [c \in Clients |-> 0]

Last(seq) == seq[Len(seq)]

\* websocket.send_text(message) of client c's websocket has succeeded: a
\* recording websocket keeps the message's step and progress under its job_id.
Sent(g, c, message) ==
    IF g[c] = Unset THEN g
    ELSE [g EXCEPT ![c][message.job_id] = Append(@, [step |-> message.step,
                                                     progress |-> message.progress])]

\* The run of job j as the variables hold it.
Cur(j) ==
    [pc |-> pc[j], at |-> at[j], ctx |-> ctx[j], events |-> events[j],
     entered |-> entered[j], exc |-> exc[j], result |-> result[j], raised |-> raised[j],
     handed |-> handed[j],
     bc |-> bc[j], recv |-> recv[j], got |-> got, calls |-> calls,
     privacy_status |-> status["privacy_agent"], reg |-> active_connections]

\* The run at the call of orchestrate_generation.
NewRun ==
    [pc |-> 1, at |-> "ready", ctx |-> NoCtx, events |-> <<>>, entered |-> <<>>,
     exc |-> PNone, result |-> Unset, raised |-> PNone, handed |-> Unset,
     bc |-> NoBroadcast,
     recv |-> NoRecv, got |-> got, calls |-> calls,
     privacy_status |-> status["privacy_agent"],
     reg |-> active_connections]

\* AfterUpdate returning from the except clause instead of raising.
AfterUpdateSwallow(r) ==
    IF r.exc # PNone THEN [r EXCEPT !.at = "returned", !.result = PNone]
    ELSE IF r.pc = Len(Program)
    THEN [r EXCEPT !.pc = @ + 1, !.at = "returned", !.result = r.ctx.result]
    ELSE [r EXCEPT !.pc = @ + 1, !.at = "ready"]

\* After send_update returns: the except clause re-raises, the last statement
\* returns the result, any other continues with the next statement.
AfterUpdate(r) ==
    IF r.exc # PNone THEN [r EXCEPT !.at = "raised", !.raised = r.exc]
    ELSE IF r.pc = Len(Program)
    THEN [r EXCEPT !.pc = @ + 1, !.at = "returned", !.result = r.ctx.result]
    ELSE [r EXCEPT !.pc = @ + 1, !.at = "ready"]

\* send_personal_message(message, "guest_user") up to its send.
SendPersonal(r) ==
    IF GuestUser \in Live(r.reg) THEN [r EXCEPT !.at = "personal"] ELSE AfterUpdate(r)

\* broadcast(message) up to its first send, then (registry empty) the rest of
\* send_update.
StartBroadcast(r) ==
    IF Live(r.reg) = {} THEN SendPersonal([r EXCEPT !.bc.phase = "done"])
    ELSE LET n == IterNext(r.reg, IterNew(r.reg))
         IN  [r EXCEPT !.at = "broadcast",
                       !.bc = [phase |-> "running", it |-> n.it, target |-> n.client,
                               disconnected |-> <<>>, start |-> Live(r.reg),
                               attempted |-> {n.client}, delivered |-> {},
                               seen |-> r.reg, quiet |-> TRUE, after |-> {}]]

\* send_update(...) up to its first suspension: the next update of the
\* program or, in the except clause, the error update.
Publish(j, a, r) ==
    LET instr == Program[r.pc]
        update == IF r.exc # PNone THEN ErrorUpdate(j, r.exc)
                  ELSE Update(j, instr.step, instr.progress, Message(instr.progress, r.ctx))
        r1 == [r EXCEPT !.events = Append(@, update), !.recv = NoRecv, !.bc = NoBroadcast]
    IN  CHOOSE x \in {IF a.websocket_manager THEN StartBroadcast(v) ELSE AfterUpdate(v) :
                          v \in {r1}} : TRUE

\* Leave with the exception of a raising stage lost: the run stays suspended.
LeaveLost(r, stage, b) ==
    IF b.do = "raise" THEN [r EXCEPT !.at = "lost"]
    ELSE [r EXCEPT !.at = "ready", !.pc = @ + 1, !.ctx[Key(stage)] = b.val,
                   !.privacy_status = IF stage = "privacy_assessment" THEN b.status ELSE @]

\* Leave with the planning stage adding its constraints to the privacy stage's
\* output.
LeaveRewrites(r, stage, b) ==
    IF b.do = "raise" THEN [r EXCEPT !.at = "ready", !.exc = PStr(b.err)]
    ELSE [r EXCEPT !.at = "ready", !.pc = @ + 1, !.ctx[Key(stage)] = b.val,
                   !.ctx.privacy_assessment =
                       IF stage = "quality_planning" /\ @.t = "dict"
                       THEN SetItem(@, "constraints", EmptyList) ELSE @,
                   !.privacy_status = IF stage = "privacy_assessment" THEN b.status ELSE @]

\* The number of calls of _generate_content_async in cs made by the stage of
\* job j.
CallsBy(cs, j, stage) == Cardinality({c \in cs : c.job = j /\ c.by = stage})

\* Leave running the bias stage a second time after its first invocation.
LeaveAgain(r, stage, b) ==
    IF stage = "bias_detection" /\ b.do = "return" /\ CallsBy(r.calls, "job-1", stage) = 1
    THEN [r EXCEPT !.at = "ready"]
    ELSE IF b.do = "raise" THEN [r EXCEPT !.at = "ready", !.exc = PStr(b.err)]
    ELSE [r EXCEPT !.at = "ready", !.pc = @ + 1, !.ctx[Key(stage)] = b.val,
                   !.privacy_status = IF stage = "privacy_assessment" THEN b.status ELSE @]

\* A stage returns its value (bound to its local variable) or raises into the
\* except clause.
Leave(r, stage, b) ==
    IF b.do = "raise" THEN [r EXCEPT !.at = "ready", !.exc = PStr(b.err)]
    ELSE [r EXCEPT !.at = "ready", !.pc = @ + 1, !.ctx[Key(stage)] = b.val,
                   !.privacy_status = IF stage = "privacy_assessment" THEN b.status ELSE @]

\* The next stage is called: it runs to its model invocation, or to its end
\* when it invokes no model (_generate_content_async raises at once without
\* a model object).
Enter(j, a, r, rnd, now) ==
    LET stage == Program[r.pc].stage
        b == StageBegin(j, a, r.ctx, stage, rnd, now)
        r1 == [r EXCEPT !.entered = Append(@, stage),
                        !.handed = IF stage = "data_generation"
                                   THEN _generate_synthetic_data_with_context(
                                            generation_context(a, r.ctx), a.source_data)
                                   ELSE @,
                        !.privacy_status = IF stage = "privacy_assessment"
                                           THEN "analyzing" ELSE @]
        r2 == [r1 EXCEPT !.calls = @ \cup {[by |-> stage, job |-> j,
                                            ready |-> is_initialized,
                                            n |-> CallsBy(r.calls, j, stage) + 1]}]
    IN  CHOOSE x \in
            {IF v.do # "invoke" THEN Leave(r1, stage, v)
             ELSE IF model THEN [r2 EXCEPT !.at = "model"]
             ELSE Leave(r2, stage,
                        StageEnd(a, r2.ctx, stage, Raise("Gemini model not initialized"),
                                 rnd, now)) : v \in {b}} : TRUE

\* The run r goes on from where it is: it stays where it is suspended or has
\* ended; else the except clause or the next statement of the program runs.
RECURSIVE Run(_, _, _, _, _)
Resume(j, a, r, rnd, now) ==
    IF r.at # "ready" THEN r
    ELSE IF r.exc # PNone \/ Program[r.pc].op = "update"
    THEN Run(j, a, Publish(j, a, r), rnd, now)
    ELSE Run(j, a, Enter(j, a, r, rnd, now), rnd, now)

\* Resume on the value of r (computed once).
Run(j, a, r, rnd, now) == CHOOSE x \in {Resume(j, a, v, rnd, now) : v \in {r}} : TRUE

\* The variables take the run's new state.
Commit(j, run) == \E r \in {run} :
    /\ pc' = [pc EXCEPT ![j] = r.pc]
    /\ at' = [at EXCEPT ![j] = r.at]
    /\ ctx' = [ctx EXCEPT ![j] = r.ctx]
    /\ events' = [events EXCEPT ![j] = r.events]
    /\ entered' = [entered EXCEPT ![j] = r.entered]
    /\ exc' = [exc EXCEPT ![j] = r.exc]
    /\ result' = [result EXCEPT ![j] = r.result]
    /\ raised' = [raised EXCEPT ![j] = r.raised]
    /\ handed' = [handed EXCEPT ![j] = r.handed]
    /\ bc' = [bc EXCEPT ![j] = r.bc]
    /\ recv' = [recv EXCEPT ![j] = r.recv]
    /\ got' = r.got
    /\ calls' = r.calls
    /\ status' = [status EXCEPT !["privacy_agent"] = r.privacy_status]
    /\ active_connections' = r.reg

\* The random source and the clock a resumption reads.
MaxRnd == 1
MaxDay == 1
Rnds == 0..MaxRnd
Days == 0..MaxDay

\* The fallback generator reads the random source (types = {"uuid"}) or the
\* clock (types = {"date", "datetime"}) only for a field of such a type: the
\* values a run with arguments a may see.
Draws(a, types, values) ==
    IF /\ a.schema.t = "dict"
       /\ \E f \in DOMAIN a.schema.v :
             a.schema.v[f].t = "dict" /\ Get(a.schema.v[f], "type", PNone) \in types
    THEN values ELSE {0}
RndsOf(a) == Draws(a, {PStr("uuid")}, Rnds)
DaysOf(a) == Draws(a, {PStr("date"), PStr("datetime")}, Days)

(* Actions of a run *)

\* orchestrate_generation(j, ...) is called with arguments a.
Submit(j, a) ==
    /\ at[j] = "idle"
    /\ job' = [job EXCEPT ![j] = a]
    /\ \E rnd \in RndsOf(a), now \in DaysOf(a) : Commit(j, Run(j, a, NewRun, rnd, now))
    /\ UNCHANGED <<api_key, model, is_initialized, initpc, ninits, hcpc, health,
                   agent_service, connpc, callVars>>

\* The model invocation of the run's current stage returns with outcome mo.
ModelReturn(j, mo) ==
    /\ at[j] = "model"
    /\ \E rnd \in RndsOf(job[j]), now \in DaysOf(job[j]) :
         \E b \in {StageEnd(job[j], ctx[j], Program[pc[j]].stage, mo, rnd, now)} :
             Commit(j, Run(j, job[j], Leave(Cur(j), Program[pc[j]].stage, b), rnd, now))
    /\ UNCHANGED <<job, api_key, model, is_initialized, initpc, ninits, hcpc, health,
                   agent_service, connpc, callVars>>

\* The send of broadcast's loop returns (ok) or raises: the failed client is
\* noted, and the loop takes the next connection, or ends and the noted
\* clients are disconnected, or the iterator raises; send_update catches that
\* and goes on to the personal message.
BroadcastSendReturn(j, ok) ==
    /\ at[j] = "broadcast"
    /\ \E rnd \in RndsOf(job[j]), now \in DaysOf(job[j]) :
         LET b == bc[j]
             b1 == [b EXCEPT !.delivered = IF ok THEN @ \cup {b.target} ELSE @,
                             !.disconnected = IF ok THEN @ ELSE Append(@, b.target),
                             !.quiet = @ /\ active_connections = b.seen]
             r1 == [Cur(j) EXCEPT !.recv[b.target] = IF ok THEN @ + 1 ELSE @,
                                  !.got = IF ok THEN Sent(@, b.target, Last(events[j])) ELSE @]
             n == IterNext(active_connections, b.it)
             reg == DisconnectAll(active_connections, b1.disconnected)
             done == [b1 EXCEPT !.phase = "done", !.after = Live(reg)]
             failed == [b1 EXCEPT !.phase = "raised"]
         IN  CASE n.kind = "yield" ->
                      Commit(j, [r1 EXCEPT !.bc = [b1 EXCEPT !.it = n.it, !.target = n.client,
                                                            !.attempted = @ \cup {n.client},
                                                            !.seen = active_connections]])
               [] n.kind = "stop" ->
                      Commit(j, Run(j, job[j],
                                    SendPersonal([r1 EXCEPT !.reg = reg, !.bc = done]),
                                    rnd, now))
               [] n.kind = "error" ->
                      Commit(j, Run(j, job[j], SendPersonal([r1 EXCEPT !.bc = failed]),
                                    rnd, now))
    /\ UNCHANGED <<job, api_key, model, is_initialized, initpc, ninits, hcpc, health,
                   agent_service, connpc, callVars>>

\* The send of send_personal_message returns (ok) or raises, and then the
\* client is disconnected; send_update returns.
PersonalSendReturn(j, ok) ==
    /\ at[j] = "personal"
    /\ \E rnd \in RndsOf(job[j]), now \in DaysOf(job[j]) :
         LET r == Cur(j)
             r1 == IF ok THEN [r EXCEPT !.recv[GuestUser] = @ + 1,
                                        !.got = Sent(@, GuestUser, Last(events[j]))]
                   ELSE [r EXCEPT !.reg = disconnect(r.reg, GuestUser)]
         IN  Commit(j, Run(j, job[j], AfterUpdate(r1), rnd, now))
    /\ UNCHANGED <<job, api_key, model, is_initialized, initpc, ninits, hcpc, health,
                   agent_service, connpc, callVars>>

-----------------------------------------------------------------------------
(* GeminiService.initialize and health_check, with                         *)
(* AgentOrchestrator.initialize around the former                          *)

Placeholder == PStr("your_gemini_api_key")

\* What the environment and the settings give as the API key.
ApiKeys == {PStr(""), Placeholder, PStr("AIza-configured-key")}

KeyConfigured == Truthy(api_key) /\ api_key # Placeholder

\* SaysOk taking any response for an OK.
SaysAny(mo) == mo.ok

\* response and response.text and "ok" in response.text.lower().strip()
SaysOk(mo) == mo.ok /\ Contains(Lower(Strip(mo.val)), <<"o", "k">>)

MaxInits == 2

\* initialize() up to its probe of the model.  Without a configured key it
\* returns at once and the orchestrator initializes the agents.
InitializeStart(key) ==
    /\ initpc = "idle"
    /\ ninits < MaxInits
    /\ ninits' = ninits + 1
    /\ api_key' = key
    /\ IF ~Truthy(key) \/ key = Placeholder
       THEN /\ is_initialized' = FALSE
            /\ agent_service' = TRUE
            /\ status' = [n \in AgentNames |-> "active"]
            /\ UNCHANGED <<model, initpc, calls>>
       ELSE /\ model' = TRUE
            /\ calls' = calls \cup {[by |-> "initialize", job |-> "", ready |-> is_initialized, n |-> 0]}
            /\ initpc' = "probing"
            /\ UNCHANGED <<is_initialized, agent_service, status>>
    /\ UNCHANGED <<jobVars, wsVars, callVars, hcpc, health>>

\* The probe returns with outcome mo; then the agents are initialized.
InitializeReturn(mo) ==
    /\ initpc = "probing"
    /\ initpc' = "idle"
    /\ is_initialized' = SaysOk(mo)
    /\ agent_service' = TRUE
    /\ status' = [n \in AgentNames |-> "active"]
    /\ UNCHANGED <<jobVars, wsVars, callVars, api_key, model, ninits, hcpc, health, calls>>

Health(st, message, configured, key_status) ==
    LET base == [status |-> PStr(st), model |-> PStr("gemini-2.0-flash-exp"),
                 message |-> message, api_key_configured |-> PBool(configured)]
    IN  IF key_status = "" THEN PDict(base)
        ELSE PDict(("api_key_status" :> PStr(key_status)) @@ base)

HealthOffline ==
    Health("offline", PStr("API key not configured or initialization failed"),
           KeyConfigured, "")

HealthError(e) ==
    Health("error", PStr("Error: " \o e), KeyConfigured,
           IF Truthy(api_key) THEN "configured" ELSE "missing")

\* HealthCheckStart probing the model whether the service is initialized or
\* not.
HealthCheckStartProbes ==
    /\ hcpc = "idle"
    /\ calls' = calls \cup {[by |-> "health_check", job |-> "", ready |-> is_initialized,
                              n |-> 0]}
    /\ IF model
       THEN hcpc' = "probing" /\ UNCHANGED health
       ELSE health' = HealthError("Gemini model not initialized") /\ UNCHANGED hcpc
    /\ UNCHANGED <<jobVars, wsVars, callVars, agentVars, api_key, model, is_initialized, initpc, ninits>>

\* health_check() up to its probe: offline without invoking the model when
\* the service is not initialized.
HealthCheckStart ==
    /\ hcpc = "idle"
    /\ IF ~is_initialized
       THEN /\ health' = HealthOffline
            /\ UNCHANGED <<hcpc, calls>>
       ELSE /\ calls' = calls \cup {[by |-> "health_check", job |-> "", ready |-> is_initialized,
                                       n |-> 0]}
            /\ IF model
               THEN hcpc' = "probing" /\ UNCHANGED health
               ELSE health' = HealthError("Gemini model not initialized") /\ UNCHANGED hcpc
    /\ UNCHANGED <<jobVars, wsVars, callVars, agentVars, api_key, model, is_initialized, initpc, ninits>>

\* HealthCheckReturn marking the service as not initialized when the probe
\* did not say ok.
HealthCheckReturnResets(mo) ==
    /\ hcpc = "probing"
    /\ hcpc' = "idle"
    /\ is_initialized' = SaysOk(mo)
    /\ health' = IF SaysOk(mo) THEN Health("online", PStr("Fully operational"), TRUE, "configured")
                 ELSE IF mo.ok
                 THEN Health("degraded", PStr("Responding but degraded"), TRUE, "configured")
                 ELSE HealthError(mo.err)
    /\ UNCHANGED <<jobVars, wsVars, callVars, agentVars, api_key, model, initpc, ninits, calls>>

\* The probe returns with outcome mo.
HealthCheckReturn(mo) ==
    /\ hcpc = "probing"
    /\ hcpc' = "idle"
    /\ health' = IF SaysOk(mo) THEN Health("online", PStr("Fully operational"), TRUE, "configured")
                 ELSE IF mo.ok
                 THEN Health("degraded", PStr("Responding but degraded"), TRUE, "configured")
                 ELSE HealthError(mo.err)
    /\ UNCHANGED <<jobVars, wsVars, callVars, agentVars, api_key, model, is_initialized, initpc, ninits,
                   calls>>

-----------------------------------------------------------------------------
(* ConnectionManager.connect and disconnect *)

\* connect(websocket, c) is called and awaits websocket.accept().  At most
\* MaxEntries keys are ever inserted.
ConnectStart(c) ==
    /\ connpc[c] = "idle"
    /\ Len(active_connections) + Cardinality({d \in Clients : connpc[d] = "accepting"})
           < MaxEntries
    /\ connpc' = [connpc EXCEPT ![c] = "accepting"]
    /\ UNCHANGED <<jobVars, gemVars, agentVars, callVars, active_connections, recv, bc, got>>

\* accept() returns and the connection is stored; connect awaits the send of
\* the greeting.  Or accept() raises and so does connect.
ConnectAccepted(c, ok) ==
    /\ connpc[c] = "accepting"
    /\ IF ok
       THEN /\ active_connections' = RegInsert(active_connections, c)
            /\ connpc' = [connpc EXCEPT ![c] = "welcome"]
       ELSE /\ connpc' = [connpc EXCEPT ![c] = "idle"]
            /\ UNCHANGED active_connections
    /\ UNCHANGED <<jobVars, gemVars, agentVars, callVars, recv, bc, got>>

\* The greeting's send returns, or raises and send_personal_message
\* disconnects the client.
ConnectWelcomeReturn(c, ok) ==
    /\ connpc[c] = "welcome"
    /\ connpc' = [connpc EXCEPT ![c] = "idle"]
    /\ active_connections' = IF ok THEN active_connections
                             ELSE disconnect(active_connections, c)
    /\ UNCHANGED <<jobVars, gemVars, agentVars, callVars, recv, bc, got>>

\* disconnect(c) for a stored connection.
Disconnect(c) ==
    /\ c \in Live(active_connections)
    /\ active_connections' = disconnect(active_connections, c)
    /\ UNCHANGED <<jobVars, gemVars, agentVars, callVars, connpc, recv, bc, got>>

-----------------------------------------------------------------------------
(* The model's responses *)

\* {"domain":"healthcare"}
TextDomainHealthcare ==
    <<"{", "\"", "d", "o", "m", "a", "i", "n", "\"", ":", "\"", "h", "e", "a", "l", "t", "h",
      "c", "a", "r", "e", "\"", "}">>
\* no json
TextNoJson ==
    <<"n", "o", " ", "j", "s", "o", "n">>
\* {"privacy_score":70}
TextPrivacyScore ==
    <<"{", "\"", "p", "r", "i", "v", "a", "c", "y", "_", "s", "c", "o", "r", "e", "\"", ":",
      "7", "0", "}">>
\* {"risk_level":"low"}
TextPrivacyNoScore ==
    <<"{", "\"", "r", "i", "s", "k", "_", "l", "e", "v", "e", "l", "\"", ":", "\"", "l", "o",
      "w", "\"", "}">>
\* {"bias_score":12}
TextBiasScore ==
    <<"{", "\"", "b", "i", "a", "s", "_", "s", "c", "o", "r", "e", "\"", ":", "1", "2", "}">>
\* {"bias_score":250}
TextBiasBeyond ==
    <<"{", "\"", "b", "i", "a", "s", "_", "s", "c", "o", "r", "e", "\"", ":", "2", "5", "0", "}">>
\* [{"id":"a","age":30},{"id":"b","age":31},{"id":"c","age":32}]
TextRecords ==
    <<"[", "{", "\"", "i", "d", "\"", ":", "\"", "a", "\"", ",", "\"", "a", "g", "e", "\"", ":",
      "3", "0", "}", ",", "{", "\"", "i", "d", "\"", ":", "\"", "b", "\"", ",", "\"", "a", "g",
      "e", "\"", ":", "3", "1", "}", ",", "{", "\"", "i", "d", "\"", ":", "\"", "c", "\"", ",",
      "\"", "a", "g", "e", "\"", ":", "3", "2", "}", "]">>
\* [{"id":"a"}]
TextOneRecord ==
    <<"[", "{", "\"", "i", "d", "\"", ":", "\"", "a", "\"", "}", "]">>
\* {"a":
\* #
\* 1}
TextObjectComment ==
    <<"{", "\"", "a", "\"", ":", "\n", "#", "\n", "1", "}">>
\* [1,]
TextTrailingComma ==
    <<"[", "1", ",", "]">>
\* ["a,]",]
TextCommaInString ==
    <<"[", "\"", "a", ",", "]", "\"", ",", "]">>
\* {"a":[1],}
TextObjectTrailing ==
    <<"{", "\"", "a", "\"", ":", "[", "1", "]", ",", "}">>
\* ["//",
\* 1,]
TextSlashes ==
    <<"[", "\"", "/", "/", "\"", ",", "\n", "1", ",", "]">>
\* [1]
TextNumbers ==
    <<"[", "1", "]">>
\* [{"id":"a","x":[true,null]}, -12]
TextNested ==
    <<"[", "{", "\"", "i", "d", "\"", ":", "\"", "a", "\"", ",", "\"", "x", "\"", ":", "[",
      "t", "r", "u", "e", ",", "n", "u", "l", "l", "]", "}", ",", " ", "-", "1", "2", "]">>
\* a line break, then [1 , []] and a line break
TextPadded ==
    <<"\n", " ", "[", "1", " ", ",", " ", "[", "]", "]", "\n">>
\* OK
TextOk ==
    <<"O", "K">>
\* no
TextNo ==
    <<"n", "o">>


\* What the probes of initialize and health_check may get.
ProbeOutcomes == {Ok(TextOk), Ok(TextNo), Raise("503 service unavailable")}

\* What a stage's model invocation may get: a response text of the expected
\* shape, one that parses to another shape, one that does not parse, or an
\* exception.
Outcomes(stage) ==
    CASE stage = "domain_analysis" ->
             {Ok(TextDomainHealthcare), Ok(TextNoJson), Raise("429 quota exceeded")}
      [] stage = "privacy_assessment" ->
             {Ok(TextPrivacyScore), Ok(TextPrivacyNoScore), Ok(TextNoJson),
              Raise("429 quota exceeded")}
      [] stage = "bias_detection" ->
             {Ok(TextBiasScore), Ok(TextBiasBeyond), Ok(TextNoJson),
              Raise("429 quota exceeded")}
      [] stage = "data_generation" ->
             {Ok(TextRecords), Ok(TextOneRecord), Ok(TextNumbers), Ok(TextNoJson),
              Raise("429 quota exceeded")}

\* What the model may answer job j while its run awaits an invocation.
OutcomesAt(j) == IF at[j] = "model" THEN Outcomes(Program[pc[j]].stage) ELSE {}

-----------------------------------------------------------------------------
(* Jobs *)

FieldUuid == PDict([type |-> PStr("uuid")])
FieldAge == PDict([type |-> PStr("number"),
                   constraints |-> PDict([min |-> PNum(18), max |-> PNum(90)])])
FieldDate == PDict([type |-> PStr("date")])
FieldExamples == PDict([type |-> PStr("string"),
                        examples |-> PList(<<PStr("a"), PStr("b")>>)])

SchemaPatients == PDict([id |-> FieldUuid, age |-> FieldAge, created |-> FieldDate])
SchemaNames == PDict([name |-> EmptyDict, score |-> FieldExamples])

RowPatient == PDict([patient_id |-> PStr("P1"), age |-> PNum(40)])

Job(source_data, schema, config, websocket_manager) ==
    [source_data |-> source_data, schema |-> schema, config |-> config,
     description |-> "", websocket_manager |-> websocket_manager]

\* The arguments orchestrate_generation is called with: complete jobs (one
\* without rowCount, one with rowCount 0, one with no source rows), and jobs
\* with a required argument missing (None).
JobInputs ==
    { Job(PList(<<RowPatient>>), SchemaPatients,
          PDict([rowCount |-> PNum(2), domain |-> PStr("healthcare")]), TRUE),
      Job(EmptyList, SchemaNames, EmptyDict, FALSE),
      Job(PList(<<RowPatient>>), SchemaNames,
          PDict([rowCount |-> PNum(0), domain |-> PStr("finance")]), TRUE),
      Job(PNone, SchemaPatients, PNone, TRUE),
      Job(PList(<<RowPatient>>), PNone, PDict([rowCount |-> PNum(1)]), FALSE) }

\* The job of the run beside the health checks.
HealthJob == Job(PList(<<RowPatient>>), SchemaNames,
                 PDict([rowCount |-> PNum(1), domain |-> PStr("healthcare")]), FALSE)

\* The job of the runs that publish to connected clients.
WsJob == Job(PList(<<RowPatient>>), SchemaNames, PDict([rowCount |-> PNum(1)]), TRUE)

-----------------------------------------------------------------------------
(* The fallback generator called on its own *)

MaxRows == 3
FallbackFields == {"patient_id", "age", "created"}
FieldSpecs == {FieldUuid, FieldAge, FieldDate, FieldExamples, EmptyDict}

\* Every schema over some of the fields: a mapping of field names to field
\* specifications.
FallbackSchemas ==
    UNION {{PDict(f) : f \in [fs -> FieldSpecs]} : fs \in SUBSET FallbackFields}

FallbackArgs ==
    [schema : FallbackSchemas, row_count : 0..MaxRows, rnd : Rnds, now : Days]

CallFallback ==
    /\ args # Unset
    /\ out = Unset
    /\ out' = _generate_intelligent_fallback_data(args.schema, PNum(args.row_count),
                                                  args.rnd, args.now)
    /\ UNCHANGED <<jobVars, gemVars, agentVars, wsVars, args>>

\* The texts a parser is called with: every text of up to MaxText characters
\* of TextChars (the empty text, texts with no bracket, arrays, objects and
\* numbers whole or damaged, comment lines), and the responses of the model.
MaxText == 3
TextChars == {"[", "]", "{", "}", ",", "0", "1", "#", "\n"}
ShortTexts == UNION {[1..n -> TextChars] : n \in 0..MaxText}
ParserTexts ==
    ShortTexts \cup {TextRecords, TextNumbers, TextNoJson, TextDomainHealthcare, TextPrivacyScore,
                     TextObjectComment, TextTrailingComma, TextCommaInString,
                     TextObjectTrailing, TextSlashes, TextNested, TextPadded}

Parsers ==
    {"_parse_json_response", "_parse_json_response_enhanced", "_parse_json_array_response",
     "_parse_json_array_response_enhanced"}

ParserArgs == [parser : Parsers, text : ParserTexts]

\* The parser args.parser is called with args.text.
CallParser ==
    /\ args # Unset
    /\ out = Unset
    /\ out' = CASE args.parser = "_parse_json_response" ->
                      Returned(_parse_json_response(args.text), 0, <<>>)
                [] args.parser = "_parse_json_response_enhanced" ->
                      Returned(_parse_json_response_enhanced(args.text), 0, <<>>)
                [] args.parser = "_parse_json_array_response" ->
                      Returned(_parse_json_array_response(args.text), 0, <<>>)
                [] args.parser = "_parse_json_array_response_enhanced" ->
                      Strategies(args.text)
    /\ UNCHANGED <<jobVars, gemVars, agentVars, wsVars, args>>

-----------------------------------------------------------------------------
(* Specifications *)

\* After construction: GeminiService.__init__, AgentOrchestrator.__init__,
\* BaseAgent.__init__, ConnectionManager.__init__; no run started.
InitProgram ==
    /\ job = [j \in Jobs |-> Unset]
    /\ pc = [j \in Jobs |-> 1]
    /\ at = [j \in Jobs |-> "idle"]
    /\ ctx = [j \in Jobs |-> NoCtx]
    /\ events = [j \in Jobs |-> <<>>]
    /\ entered = [j \in Jobs |-> <<>>]
    /\ exc = [j \in Jobs |-> PNone]
    /\ result = [j \in Jobs |-> Unset]
    /\ raised = [j \in Jobs |-> PNone]
    /\ handed = [j \in Jobs |-> Unset]
    /\ bc = [j \in Jobs |-> NoBroadcast]
    /\ recv = [j \in Jobs |-> NoRecv]
    /\ got = [c \in Clients |-> Unset]
    /\ api_key = PNone
    /\ model = FALSE
    /\ is_initialized = FALSE
    /\ initpc = "idle"
    /\ ninits = 0
    /\ hcpc = "idle"
    /\ health = Unset
    /\ calls = {}
    /\ agent_service = FALSE
    /\ status = [n \in AgentNames |-> "initializing"]
    /\ active_connections = <<>>
    /\ connpc = [c \in Clients |-> "idle"]

Init == InitProgram /\ args = Unset /\ out = Unset

\* One job of any input, the service being initialized at any time, no client
\* connected.
Next ==
    \/ \E a \in JobInputs : Submit("job-1", a)
    \/ \E mo \in OutcomesAt("job-1") : ModelReturn("job-1", mo)
    \/ \E key \in ApiKeys : InitializeStart(key)
    \/ \E mo \in ProbeOutcomes : InitializeReturn(mo)

Spec == Init /\ [][Next]_vars

\* One job, the service being initialized and health-checked at any time; the
\* model answers a stage as it answers a probe.
NextHealth ==
    \/ Submit("job-1", HealthJob)
    \/ \E mo \in ProbeOutcomes : ModelReturn("job-1", mo)
    \/ \E key \in ApiKeys : InitializeStart(key)
    \/ \E mo \in ProbeOutcomes : InitializeReturn(mo)
    \/ HealthCheckStart
    \/ \E mo \in ProbeOutcomes : HealthCheckReturn(mo)

SpecHealth == Init /\ [][NextHealth]_vars

\* One job publishing its updates while clients connect and disconnect; the
\* service is never initialized.
NextWS ==
    \/ Submit("job-1", WsJob)
    \/ \E ok \in BOOLEAN : BroadcastSendReturn("job-1", ok)
    \/ \E ok \in BOOLEAN : PersonalSendReturn("job-1", ok)
    \/ \E c \in Clients : ConnectStart(c)
    \/ \E c \in Clients, ok \in BOOLEAN : ConnectAccepted(c, ok)
    \/ \E c \in Clients, ok \in BOOLEAN : ConnectWelcomeReturn(c, ok)
    \/ \E c \in Clients : Disconnect(c)

SpecWS == Init /\ [][NextWS]_vars

\* The fallback generator on every schema and count of the bounded sets.
InitFallback == InitProgram /\ args \in FallbackArgs /\ out = Unset
NextFallback == CallFallback
SpecFallback == InitFallback /\ [][NextFallback]_vars

\* One call of a response parser with any text.
InitParser == InitProgram /\ args \in ParserArgs /\ out = Unset
NextParser == CallParser
SpecParser == InitParser /\ [][NextParser]_vars

\* After initialize() has returned with the model's probe answered "OK": the
\* service is initialized and the agents hold it.
InitOnline ==
    /\ job = [j \in Jobs |-> Unset]
    /\ pc = [j \in Jobs |-> 1]
    /\ at = [j \in Jobs |-> "idle"]
    /\ ctx = [j \in Jobs |-> NoCtx]
    /\ events = [j \in Jobs |-> <<>>]
    /\ entered = [j \in Jobs |-> <<>>]
    /\ exc = [j \in Jobs |-> PNone]
    /\ result = [j \in Jobs |-> Unset]
    /\ raised = [j \in Jobs |-> PNone]
    /\ handed = [j \in Jobs |-> Unset]
    /\ bc = [j \in Jobs |-> NoBroadcast]
    /\ recv = [j \in Jobs |-> NoRecv]
    /\ got = [c \in Clients |-> Unset]
    /\ api_key = PStr("AIza-configured-key")
    /\ model = TRUE
    /\ is_initialized = TRUE
    /\ initpc = "idle"
    /\ ninits = 1
    /\ hcpc = "idle"
    /\ health = Unset
    /\ calls = {[by |-> "initialize", job |-> "", ready |-> FALSE, n |-> 0]}
    /\ agent_service = TRUE
    /\ status = [n \in AgentNames |-> "active"]
    /\ active_connections = <<>>
    /\ connpc = [c \in Clients |-> "idle"]
    /\ args = Unset
    /\ out = Unset

\* What the model may answer in these runs: a text that parses, to a value
\* no stage expects, or an exception.
DoneOutcomes == {Ok(TextNumbers), Raise("429 quota exceeded")}

\* One job run online and publishing its updates to the guest client, which
\* connects and disconnects.  Every model invocation and every send that is
\* awaited eventually returns or raises.
NextDone ==
    \/ Submit("job-1", WsJob)
    \/ \E mo \in DoneOutcomes : ModelReturn("job-1", mo)
    \/ \E ok \in BOOLEAN : BroadcastSendReturn("job-1", ok)
    \/ \E ok \in BOOLEAN : PersonalSendReturn("job-1", ok)
    \/ ConnectStart(GuestUser)
    \/ ConnectAccepted(GuestUser, TRUE)
    \/ ConnectWelcomeReturn(GuestUser, TRUE)
    \/ Disconnect(GuestUser)

\* The part of the state only the run of job j changes.
runVars(j) == <<pc[j], at[j], ctx[j], events[j], entered[j], exc[j]>>

\* Weak fairness of the returns of the awaited calls.  A send's return is
\* enabled exactly while the run is suspended in the send.  The model's return
\* is enabled exactly while the run is suspended in the invocation and is the
\* only step that then changes runVars, so its fairness is written with that
\* condition in the place of ENABLED.
AwaitsReturn ==
    /\ \/ []<>(at["job-1"] # "model")
       \/ []<><<at["job-1"] = "model">>_(runVars("job-1"))
    /\ WF_vars(\E ok \in BOOLEAN : BroadcastSendReturn("job-1", ok))
    /\ WF_vars(\E ok \in BOOLEAN : PersonalSendReturn("job-1", ok))

SpecDone == InitOnline /\ [][NextDone]_vars /\ AwaitsReturn

\* As InitOnline, with the guest client connected through a websocket that
\* records what it is sent.
InitTwo ==
    /\ job = [j \in Jobs |-> Unset]
    /\ pc = [j \in Jobs |-> 1]
    /\ at = [j \in Jobs |-> "idle"]
    /\ ctx = [j \in Jobs |-> NoCtx]
    /\ events = [j \in Jobs |-> <<>>]
    /\ entered = [j \in Jobs |-> <<>>]
    /\ exc = [j \in Jobs |-> PNone]
    /\ result = [j \in Jobs |-> Unset]
    /\ raised = [j \in Jobs |-> PNone]
    /\ handed = [j \in Jobs |-> Unset]
    /\ bc = [j \in Jobs |-> NoBroadcast]
    /\ recv = [j \in Jobs |-> NoRecv]
    /\ got = [c \in Clients |-> IF c = GuestUser THEN [j \in Jobs |-> <<>>] ELSE Unset]
    /\ api_key = PStr("AIza-configured-key")
    /\ model = TRUE
    /\ is_initialized = TRUE
    /\ initpc = "idle"
    /\ ninits = 1
    /\ hcpc = "idle"
    /\ health = Unset
    /\ calls = {[by |-> "initialize", job |-> "", ready |-> FALSE, n |-> 0]}
    /\ agent_service = TRUE
    /\ status = [n \in AgentNames |-> "active"]
    /\ active_connections = <<GuestUser>>
    /\ connpc = [c \in Clients |-> "idle"]
    /\ args = Unset
    /\ out = Unset

\* Two jobs run concurrently on the one orchestrator and publish to the one
\* ConnectionManager; every model invocation raises, a send succeeds or fails.
NextTwo ==
    \/ \E j \in Jobs : Submit(j, WsJob)
    \/ \E j \in Jobs : ModelReturn(j, Raise("429 quota exceeded"))
    \/ \E j \in Jobs, ok \in BOOLEAN : BroadcastSendReturn(j, ok)
    \/ \E j \in Jobs, ok \in BOOLEAN : PersonalSendReturn(j, ok)

SpecTwo == InitTwo /\ [][NextTwo]_vars

-----------------------------------------------------------------------------
(* Properties of a run of orchestrate_generation *)

\* The order of the stages.
StageOrder ==
    <<"domain_analysis", "privacy_assessment", "bias_detection", "relationship_mapping",
      "quality_planning", "data_generation", "quality_validation", "final_assembly">>

IsPrefix(s, t) == Len(s) <= Len(t) /\ \A i \in 1..Len(s) : s[i] = t[i]

\* The progress values of the events of job j, in the order published.
Progress(j) == [i \in 1..Len(events[j]) |-> events[j][i].progress]

\* The model was invoked for job j.
Invoked(j) == \E c \in calls : c.job = j

\* C1: in every run the stages are entered in the fixed order (domain
\* analysis, privacy assessment, bias detection, relationship mapping, quality
\* planning, data generation, quality validation, final assembly), each at
\* most once, and a stage is entered only when every stage before it has
\* returned its value.
StagesInFixedOrder ==
    \A j \in Jobs :
        /\ IsPrefix(entered[j], StageOrder)
        /\ \A i \in 1..(Len(entered[j]) - 1) : ctx[j][Key(entered[j][i])] # Unset

\* A run that invoked the model has entered all eight stages and returned.
AllStagesEntered ==
    /\ at["job-1"] = "returned"
    /\ entered["job-1"] = StageOrder
    /\ Invoked("job-1")

\* C2: the progress values published for a run never decrease before its
\* last event; no event follows an event of progress -1, so that there is at
\* most one and none after a 100 that is followed by anything; a run that
\* returned ended with 100, a run that raised ended with -1.
ProgressOrdered ==
    \A j \in Jobs :
        LET p == Progress(j)
        IN  /\ \A i \in 1..(Len(p) - 1) : p[i] # -1 /\ p[i] # 100
            /\ \A i, k \in 1..Len(p) : i < k /\ p[k] # -1 => p[i] <= p[k]
            /\ at[j] = "returned" => p[Len(p)] = 100
            /\ at[j] = "raised" => p[Len(p)] = -1
            /\ p # <<>> /\ p[Len(p)] \in {-1, 100} => at[j] \in {"returned", "raised"}

\* A run has raised after publishing the updates of several stages.
RunEndedWithError ==
    /\ at["job-1"] = "raised"
    /\ Len(events["job-1"]) > 2
    /\ events["job-1"][Len(events["job-1"])].progress = -1

\* C3: once a stage has raised, the run enters no further stage and does not
\* enter that stage again, binds no result and does not return; when it ends,
\* it has published exactly one event of progress -1, whose message carries
\* the error's message, and the caller gets the same error.
FailureStopsRun ==
    \A j \in Jobs :
        exc[j] # PNone =>
            /\ Program[pc[j]].op = "stage"
            /\ entered[j][Len(entered[j])] = Program[pc[j]].stage
            /\ Cardinality({i \in 1..Len(entered[j]) : entered[j][i] = Program[pc[j]].stage}) = 1
            /\ ctx[j][Key(Program[pc[j]].stage)] = Unset
            /\ result[j] = Unset
            /\ at[j] # "returned"
            /\ at[j] = "raised" =>
                   /\ raised[j] = exc[j]
                   /\ Cardinality({i \in 1..Len(events[j]) : events[j][i].progress = -1}) = 1
                   /\ LET last == events[j][Len(events[j])]
                      IN  /\ last.job_id = j
                          /\ last.progress = -1
                          /\ last.message = Msg("Generation failed: {}", exc[j])

\* A stage before the last one raised and the run ended with that error.
StageRaised ==
    /\ at["job-1"] = "raised"
    /\ raised["job-1"] # PNone
    /\ Len(entered["job-1"]) < Len(StageOrder)

\* The required fields of a job are present: source_data a list of records,
\* schema a mapping of field names to field specifications, config a mapping.
Required(a) ==
    /\ a.source_data.t = "list"
    /\ \A i \in 1..Len(a.source_data.v) : a.source_data.v[i].t = "dict"
    /\ a.schema.t = "dict"
    /\ \A f \in DOMAIN a.schema.v : a.schema.v[f].t = "dict"
    /\ a.config.t = "dict"

\* C4: a run of a job whose required fields are present publishes no event of
\* progress -1 and does not raise; when it ends it has returned a result and
\* its last event has progress 100, whatever the model did.
RequiredJobCompletes ==
    \A j \in Jobs :
        job[j] # Unset /\ Required(job[j]) =>
            /\ \A i \in 1..Len(events[j]) : events[j][i].progress # -1
            /\ at[j] # "raised"
            /\ at[j] = "returned" =>
                   result[j] # Unset /\ events[j][Len(events[j])].progress = 100

\* C5: every invocation of the model by a stage of a run or by a health check
\* was made while is_initialized was true (the probe of initialize() is the
\* one invocation made before).
GateHolds == \A c \in calls : c.by # "initialize" => c.ready

\* With the model object created but the service not initialized, a run has
\* gone through all its stages and a health check has answered, and the
\* model was invoked by the probe of initialize() only.
RanBehindClosedGate ==
    /\ model /\ ~is_initialized
    /\ at["job-1"] = "returned"
    /\ \A i \in 1..Len(events["job-1"]) : events["job-1"][i].gemini_status = "offline"
    /\ health = HealthOffline
    /\ calls # {} /\ \A c \in calls : c.by = "initialize"

\* C6: the value the privacy stage returned holds a privacy_score and the
\* value the bias stage returned holds a bias_score.
ScoresPresent ==
    \A j \in Jobs :
        /\ ctx[j].privacy_assessment # Unset =>
               /\ ctx[j].privacy_assessment.t = "dict"
               /\ "privacy_score" \in DOMAIN ctx[j].privacy_assessment.v
        /\ ctx[j].bias_analysis # Unset =>
               /\ ctx[j].bias_analysis.t = "dict"
               /\ "bias_score" \in DOMAIN ctx[j].bias_analysis.v

-----------------------------------------------------------------------------
(* Properties of the fallback generator *)

\* The value is a list of n records, each with exactly the fields of schema.
RecordsOf(val, schema, n) ==
    /\ val.t = "list"
    /\ Len(val.v) = n
    /\ \A i \in 1..Len(val.v) :
          val.v[i].t = "dict" /\ DOMAIN val.v[i].v = DOMAIN schema.v

\* C7: _generate_intelligent_fallback_data(schema, row_count) returns, for
\* every schema and every row_count >= 0, exactly row_count records, each
\* with every field name of the schema and no other field.
FallbackShape ==
    out # Unset => out.ok /\ RecordsOf(out.val, args.schema, args.row_count)

\* The generator has returned the most rows for a schema of all the fields.
FallbackCalled ==
    /\ out # Unset
    /\ args.row_count = MaxRows
    /\ DOMAIN args.schema.v = FallbackFields
    /\ Len(out.val.v) = MaxRows

\* The run of job j went without the model: the service was not initialized
\* at any of its updates and it invoked nothing.
Offline(j) ==
    /\ events[j] # <<>>
    /\ \A i \in 1..Len(events[j]) : events[j][i].gemini_status = "offline"
    /\ ~Invoked(j)

\* The number of rows config asks for.
RowsAsked(config) == Get(config, "rowCount", PNum(DefaultRowCount))

\* C8: a run without the model, of a job whose schema is a mapping of field
\* names to field specifications and whose config is a mapping with rowCount
\* N >= 0 or without rowCount (N = 100), returns a result whose data is
\* exactly N records, each with every field of the schema, and its last
\* event has progress 100.
OfflineRunGeneratesRows ==
    \A j \in Jobs :
        /\ Offline(j)
        /\ job[j].schema.t = "dict"
        /\ \A f \in DOMAIN job[j].schema.v : job[j].schema.v[f].t = "dict"
        /\ job[j].config.t = "dict"
        /\ RowsAsked(job[j].config).t = "num"
        /\ RowsAsked(job[j].config).v >= 0
        => /\ at[j] = "returned"
           /\ result[j].t = "dict"
           /\ RecordsOf(result[j].v.data, job[j].schema, RowsAsked(job[j].config).v)
           /\ events[j][Len(events[j])].progress = 100

\* A run without the model has returned the default number of rows.
OfflineRunDefaultRows ==
    /\ Offline("job-1")
    /\ at["job-1"] = "returned"
    /\ "rowCount" \notin DOMAIN job["job-1"].config.v
    /\ Len(result["job-1"].v.data.v) = DefaultRowCount

-----------------------------------------------------------------------------
(* Properties of the registry of connections *)

\* The clients whose send failed in the broadcast of job j.
Failed(j) == {bc[j].disconnected[i] : i \in 1..Len(bc[j].disconnected)}

\* C9: a broadcast during which nothing else changed the registry does not
\* raise; when it has ended, a send was attempted to every client registered
\* at its start, the clients whose send failed are no longer registered, and
\* every other one is still registered and has received the message; and no
\* failed delivery makes the run of the publishing job fail.
BroadcastDelivers ==
    \A j \in Jobs :
        /\ exc[j] = PNone /\ at[j] # "raised"
        /\ bc[j].phase = "raised" => ~bc[j].quiet
        /\ bc[j].phase = "done" /\ bc[j].quiet =>
               /\ bc[j].attempted = bc[j].start
               /\ bc[j].delivered = bc[j].start \ Failed(j)
               /\ bc[j].after = bc[j].start \ Failed(j)
               /\ \A c \in bc[j].delivered : recv[j][c] >= 1
               /\ \A c \in Failed(j) : recv[j][c] = 0

\* An undisturbed broadcast to two clients has ended with one send failed and
\* the other delivered, and the run goes on.
BroadcastWithFailure ==
    /\ bc["job-1"].phase = "done"
    /\ bc["job-1"].quiet
    /\ bc["job-1"].start = Clients
    /\ Failed("job-1") = {"client_1"}
    /\ bc["job-1"].delivered = {GuestUser}
    /\ at["job-1"] = "personal"

\* C10: no broadcast takes the next connection of its loop from a registry
\* that an entry was added to or removed from while the broadcast was
\* suspended in a send.
BroadcastsUndisturbed == \A j \in Jobs : bc[j].quiet

-----------------------------------------------------------------------------
(* Termination of a run *)

\* The run of job j has returned a Result, its last update carrying progress
\* 100.
ReturnedResult(j) ==
    /\ at[j] = "returned" /\ result[j] # Unset /\ raised[j] = PNone
    /\ Len(events[j]) > 0 /\ events[j][Len(events[j])].progress = 100

\* The run of job j has raised an error, its last update carrying progress -1.
RaisedError(j) ==
    /\ at[j] = "raised" /\ raised[j] # PNone /\ result[j] = Unset
    /\ Len(events[j]) > 0 /\ events[j][Len(events[j])].progress = -1

\* C11: when every awaited model invocation and send returns or raises, a
\* started run ends, and it ends in one of two ways: it has returned a Result
\* after the update with progress 100, or it has raised after the update with
\* progress -1.
RunTerminates ==
    (at["job-1"] # "idle") ~> (ReturnedResult("job-1") \/ RaisedError("job-1"))

\* A run has waited for the model and for a send, and has ended.
RunEndedAfterWaiting ==
    /\ ReturnedResult("job-1") \/ RaisedError("job-1")
    /\ Invoked("job-1")
    /\ \E c \in Clients : recv["job-1"][c] > 0

-----------------------------------------------------------------------------
(* Jobs with a required argument missing *)

\* source_data, schema or config of the arguments a is None.
MissingField(a) == a.source_data = PNone \/ a.schema = PNone \/ a.config = PNone

\* C12: a run whose job lacks a required field (source_data, schema or config
\* is None) never returns a Result: it is not at its return and holds no
\* result, and once it has ended it has raised after an update with progress -1.
MissingFieldAborts ==
    \A j \in Jobs :
        job[j] # Unset /\ MissingField(job[j]) =>
            /\ at[j] # "returned"
            /\ result[j] = Unset
            /\ at[j] = "raised" => Progress(j)[Len(events[j])] = -1

\* C13: the fallback generator is a function of its arguments: the value of a
\* call is the value of every call with the same schema and count, whatever
\* the random source and the clock give.
FallbackDeterministic ==
    out # Unset =>
        \A rnd \in Rnds, now \in Days :
            out = _generate_intelligent_fallback_data(args.schema, PNum(args.row_count),
                                                      rnd, now)

-----------------------------------------------------------------------------
(* The updates at the boundaries of the stages *)

\* The progress range of each stage: its lower and its upper boundary.
ProgressRange(stage) ==
    CASE stage = "domain_analysis" -> <<10, 25>>
      [] stage = "privacy_assessment" -> <<30, 40>>
      [] stage = "bias_detection" -> <<45, 55>>
      [] stage = "relationship_mapping" -> <<60, 70>>
      [] stage = "quality_planning" -> <<72, 75>>
      [] stage = "data_generation" -> <<80, 90>>
      [] stage = "quality_validation" -> <<92, 95>>
      [] stage = "final_assembly" -> <<98, 100>>

\* The updates of job j's try block: its updates but the error update.
TryUpdates(j) ==
    IF Len(events[j]) > 0 /\ events[j][Len(events[j])].progress = -1
    THEN SubSeq(events[j], 1, Len(events[j]) - 1)
    ELSE events[j]

\* The updates of job j lie at the boundaries of the stages, endStep(k) being
\* the step name of the update that ends the k-th stage: the update after the
\* first is alternately the start of a stage, at the lower boundary under the
\* stage's name, and its end, at the upper boundary; a stage is entered after
\* its start update, and its end update follows the return of its work; the
\* ranges are disjoint and ordered.
AtBoundaries(j, endStep(_)) ==
    LET ups == TryUpdates(j)
    IN  /\ \A k \in 1..Len(StageOrder) :
               /\ 2 * k <= Len(ups) =>
                      /\ ups[2 * k].step = StageOrder[k]
                      /\ ups[2 * k].progress = ProgressRange(StageOrder[k])[1]
               /\ 2 * k + 1 <= Len(ups) =>
                      /\ ups[2 * k + 1].step = endStep(k)
                      /\ ups[2 * k + 1].progress = ProgressRange(StageOrder[k])[2]
                      /\ k <= Len(entered[j])
                      /\ ctx[j][Key(StageOrder[k])] # Unset
               /\ k <= Len(entered[j]) => 2 * k <= Len(ups)
               /\ ProgressRange(StageOrder[k])[1] < ProgressRange(StageOrder[k])[2]
               /\ k > 1 => ProgressRange(StageOrder[k - 1])[2] < ProgressRange(StageOrder[k])[1]
        /\ Len(ups) <= 2 * Len(StageOrder) + 1
        /\ \A i \in 1..Len(ups) : ups[i].job_id = j

\* The step name of the update that ends the k-th stage: the stage's name,
\* but "completion" for the last stage.
EndStep(k) == IF k = Len(StageOrder) THEN "completion" ELSE StageOrder[k]
SameStep(k) == StageOrder[k]

-----------------------------------------------------------------------------
(* The model invocations of a run *)

\* The stages that use the model.
ModelStages == {"domain_analysis", "privacy_assessment", "bias_detection", "data_generation"}

\* C15: in a run only the domain, privacy, bias and generation stages invoke
\* the model, each at most once, whatever an invocation gave (a response, one
\* that does not parse, or an exception): every call of a run is the first
\* call of a model stage the run has entered, so a run makes at most four.
ModelCalledOncePerStage ==
    \A j \in Jobs :
        /\ \A c \in calls :
               c.job = j =>
                   /\ c.by \in ModelStages
                   /\ c.n = 1
                   /\ \E i \in 1..Len(entered[j]) : entered[j][i] = c.by
        /\ Cardinality({c \in calls : c.job = j}) <= Cardinality(ModelStages)

\* A run has ended after four invocations, and the output of its privacy
\* stage carries an 'error' entry: the response did not parse, or the stage
\* caught an exception after the invocation.
FourCallsWithFailures ==
    /\ at["job-1"] \in {"returned", "raised"}
    /\ Cardinality({c \in calls : c.job = "job-1"}) = 4
    /\ "error" \in DOMAIN ctx["job-1"].privacy_assessment.v
    /\ ctx["job-1"].bias_analysis.t = "dict"

-----------------------------------------------------------------------------
(* A model invocation that raises *)

\* The stages whose agent answers a failed invocation with defaults.
ScoredStages == {"domain_analysis", "privacy_assessment", "bias_detection"}

\* The output the stage of job j left in the context, after the step.
StageOutput(j, stage) == ctx'[j][Key(stage)]

\* C16 (as stated): whenever the invocation of the domain, privacy or bias
\* stage raises, the output the stage leaves carries an 'error' entry and the
\* default score (privacy_score 85, bias_score 88), and the run enters the
\* next stage.
RaiseGivesDefaultAndError ==
    [][\A j \in Jobs :
         LET stage == Program[pc[j]].stage
         IN  /\ at[j] = "model"
             /\ stage \in ScoredStages
             /\ ModelReturn(j, Raise("429 quota exceeded"))
             => /\ Len(entered'[j]) > Len(entered[j])
                /\ "error" \in DOMAIN StageOutput(j, stage).v
                /\ stage = "privacy_assessment" =>
                       StageOutput(j, stage).v["privacy_score"] = PNum(85)
                /\ stage = "bias_detection" =>
                       StageOutput(j, stage).v["bias_score"] = PNum(88)]_vars

-----------------------------------------------------------------------------
(* The scores of a result *)

\* x is a number from 0 to 100.
IsScore(x) == x.t = "num" /\ x.v \in 0..100

\* The field of a stage output, when the output is a dict that has it, is a
\* score.
ScoreField(output, field) ==
    output.t = "dict" /\ field \in DOMAIN output.v => IsScore(output.v[field])

\* C18 (as stated): the three scores of every result returned are numbers
\* from 0 to 100, and so is the score field of the privacy and of the bias
\* stage's output, whatever the model answered.
ScoresInRange ==
    \A j \in Jobs :
        /\ ScoreField(ctx[j].privacy_assessment, "privacy_score")
        /\ ScoreField(ctx[j].bias_analysis, "bias_score")
        /\ at[j] = "returned" =>
               /\ IsScore(ctx[j].result.v["quality_score"])
               /\ IsScore(ctx[j].result.v["privacy_score"])
               /\ IsScore(ctx[j].result.v["bias_score"])

-----------------------------------------------------------------------------
(* The updates of concurrent jobs *)

\* The updates of a run that raises nothing, in the order of the program.
ProgramUpdates == SelectSeq(Program, LAMBDA instr : instr.op = "update")

\* The place of an update in a run: that of its send_update call in the
\* program, after all of them for the error update, 0 for any other.
Place(e) ==
    IF \E k \in 1..Len(ProgramUpdates) :
           ProgramUpdates[k].step = e.step /\ ProgramUpdates[k].progress = e.progress
    THEN CHOOSE k \in 1..Len(ProgramUpdates) :
             ProgramUpdates[k].step = e.step /\ ProgramUpdates[k].progress = e.progress
    ELSE IF e.step = "error" /\ e.progress = -1 THEN Len(ProgramUpdates) + 1
    ELSE 0

\* The updates of job j that a client was sent as e: their numbers among the
\* updates the job has built.
Built(j, e) ==
    {k \in 1..Len(events[j]) :
         events[j][k].step = e.step /\ events[j][k].progress = e.progress}

\* C17: with two jobs run concurrently, the updates built for a job carry its
\* job_id and are those of a run of the job alone, in the same order (the
\* i-th is the i-th send_update of the program, or it is the error update and
\* the last); and what a client was sent under one job_id are updates the job
\* has built, in that order, each at most twice (broadcast and personal
\* message).
JobUpdatesInOrder ==
    \A j \in Jobs :
        /\ \A i \in 1..Len(events[j]) :
               /\ events[j][i].job_id = j
               /\ \/ Place(events[j][i]) = i
                  \/ Place(events[j][i]) = Len(ProgramUpdates) + 1 /\ i = Len(events[j])
        /\ \A c \in Clients :
               got[c] # Unset =>
                   LET seen == got[c][j]
                       n(i) == CHOOSE k \in Built(j, seen[i]) : TRUE
                   IN  /\ \A i \in 1..Len(seen) : Cardinality(Built(j, seen[i])) = 1
                       /\ \A i \in 1..(Len(seen) - 1) : n(i) <= n(i + 1)
                       /\ \A i \in 1..(Len(seen) - 2) : n(i) < n(i + 2)

\* Both jobs are in the middle of their runs, one suspended in a send of its
\* broadcast and the other in its personal message, and the guest has been
\* sent several updates of each.
BothJobsSending ==
    /\ at["job-1"] = "broadcast"
    /\ at["job-2"] = "personal"
    /\ Len(got[GuestUser]["job-1"]) >= 4
    /\ Len(got[GuestUser]["job-2"]) >= 4
    /\ pc["job-1"] > pc["job-2"]

-----------------------------------------------------------------------------
(* The response parsers *)

\* The values of Python a parser returns.
ValueTypes == {"none", "bool", "num", "float", "str", "list", "dict"}

\* Every parse the parser attempts on the text fails.
AllParsesFail(parser, text) ==
    CASE parser = "_parse_json_response" ->
             ~JsonLoads(Strip(DropFenceEnd(DropFenceJson(Strip(text))))).ok
      [] parser = "_parse_json_response_enhanced" ->
             /\ ~JsonLoads(_clean_json_response(text)).ok
             /\ ~JsonLoads(_fix_common_json_errors(_clean_json_response(text))).ok
      [] parser = "_parse_json_array_response" ->
             ~JsonLoads(ArraySpan(Strip(DropFenceEnd(DropFenceStart(Strip(text), 4))))).ok
      [] parser = "_parse_json_array_response_enhanced" ->
             /\ ~JsonLoads(_clean_json_response(text)).ok
             /\ ~JsonLoads(_extract_json_array(_clean_json_response(text))).ok
             /\ ~JsonLoads(_fix_common_json_errors(_clean_json_response(text))).ok
             /\ ~JsonLoads(JoinLines(KeptLines(text))).ok

\* What a parser returns for a failure.
FailureMarker(parser) ==
    IF parser \in {"_parse_json_array_response", "_parse_json_array_response_enhanced"}
    THEN EmptyList ELSE ParseErrorDict

\* C19: a call of any of the four parsers with any text returns a value, no
\* exception leaves it; and when every parse it attempts fails, the value is
\* the failure marker: [] from the array parsers, {"error": ...} from the
\* object parsers.
ParsersNeverRaise ==
    out # Unset =>
        /\ out.val.t \in ValueTypes
        /\ AllParsesFail(args.parser, args.text) => out.val = FailureMarker(args.parser)

\* The enhanced array parser has been called with a text that has no bracket,
\* has attempted the direct parse, the repair and the line filtering, and has
\* returned [].
MarkerReturned ==
    /\ out # Unset
    /\ args.parser = "_parse_json_array_response_enhanced"
    /\ args.text = TextNoJson
    /\ AllParsesFail(args.parser, args.text)
    /\ out.tried = <<1, 3, 4>>
    /\ out.val = EmptyList

-----------------------------------------------------------------------------
(* The order of the recovery strategies *)

EnhancedCall == out # Unset /\ args.parser = "_parse_json_array_response_enhanced"

\* The parse strategy k makes of the text on its own: json.loads of the cleaned
\* text (1), of the array extracted from it (2), of its repair (3), of the
\* kept lines of the original text (4).
StrategyParse(k, text) ==
    CASE k = 1 -> JsonLoads(_clean_json_response(text))
      [] k = 2 -> JsonLoads(_extract_json_array(_clean_json_response(text)))
      [] k = 3 -> JsonLoads(_fix_common_json_errors(_clean_json_response(text)))
      [] k = 4 -> JsonLoads(JoinLines(KeptLines(text)))

\* Strategy k returns from the function: the direct parse only with a list or
\* a dict, the line filtering only with a value that is truthy.
StrategyReturns(k, text) ==
    /\ StrategyParse(k, text).ok
    /\ k = 1 => StrategyParse(k, text).val.t \in {"list", "dict"}
    /\ k = 4 => Truthy(StrategyParse(k, text).val)

\* What strategy k then returns: the parsed value, put in a list by the first
\* three strategies unless it is one.
StrategyValue(k, text) ==
    IF k = 4 THEN StrategyParse(k, text).val ELSE AsList(StrategyParse(k, text).val)

\* C20 (as stated): a strategy is attempted only when the parse of every
\* strategy attempted before it has failed, and the value returned is the
\* one parsed by the first strategy whose parse succeeds (as a list).
StrategiesUntilFirstParse ==
    EnhancedCall =>
        /\ \A i \in 1..Len(out.tried) : \A m \in 1..(i - 1) :
               ~StrategyParse(out.tried[m], args.text).ok
        /\ \A k \in 1..4 :
               /\ StrategyParse(k, args.text).ok
               /\ \A m \in 1..(k - 1) : ~StrategyParse(m, args.text).ok
               => AsList(out.val) = AsList(StrategyParse(k, args.text).val)

\* C20 (amended): the strategies are attempted in the order direct parse,
\* array extraction, repair, line filtering, beginning with the first; a
\* strategy is attempted only when none attempted before it has returned and
\* is left out only when it has no text to parse; the value returned is that
\* of the strategy attempted last, or [] when it does not return either.
StrategiesInOrder ==
    EnhancedCall =>
        /\ Len(out.tried) >= 1 /\ out.tried[1] = 1
        /\ \A k \in 1..Last(out.tried) :
               (\A i \in 1..Len(out.tried) : out.tried[i] # k) =>
                   ~StrategyParse(k, args.text).ok
        /\ \A i \in 1..(Len(out.tried) - 1) :
               /\ out.tried[i] < out.tried[i + 1]
               /\ ~StrategyReturns(out.tried[i], args.text)
        /\ IF StrategyReturns(Last(out.tried), args.text)
           THEN /\ out.by = Last(out.tried)
                /\ out.val = StrategyValue(Last(out.tried), args.text)
           ELSE /\ out.by = 0
                /\ out.val = EmptyList
                /\ Last(out.tried) = 4

\* The repair has returned the value after the direct parse and the array
\* extraction had failed on the text '[,]'.
RepairReturned ==
    /\ EnhancedCall
    /\ args.text = <<"[", ",", "]">>
    /\ out.tried = <<1, 2, 3>>
    /\ out.by = 3
    /\ out.val = EmptyList

-----------------------------------------------------------------------------
(* The stage outputs are kept *)

\* The local variables that hold the stage outputs.
OutputKeys == DOMAIN NoCtx

\* The entry of agent_insights for each output the result reports.
InsightOf ==
    [domain_analysis |-> "domain_analysis", privacy_assessment |-> "privacy_assessment",
     bias_analysis |-> "bias_analysis", relationship_analysis |-> "relationship_analysis",
     final_quality_assessment |-> "quality_assessment"]

\* C21: in every step of a run, an output a stage has returned stays as it is
\* (the context only gains entries), and a result that is returned holds in
\* agent_insights, for each stage it reports, the value the stage returned.
StageOutputsKept ==
    [][\A j \in Jobs :
         /\ \A k \in OutputKeys : ctx[j][k] # Unset => ctx'[j][k] = ctx[j][k]
         /\ result'[j] \notin {Unset, PNone} =>
                \A k \in DOMAIN InsightOf :
                    result'[j].v["agent_insights"].v[InsightOf[k]] = ctx'[j][k]]_vars

\* A run has returned a result after the privacy stage had answered from the
\* model's response and five more stages had run.
ResultWithInsights ==
    /\ at["job-1"] = "returned"
    /\ result["job-1"] \notin {Unset, PNone}
    /\ Invoked("job-1")
    /\ ctx["job-1"].privacy_assessment.t = "dict"
    /\ "privacy_score" \in DOMAIN ctx["job-1"].privacy_assessment.v
    /\ ctx["job-1"].privacy_assessment.v["privacy_score"] = PNum(80)
    /\ \A k \in OutputKeys : ctx["job-1"][k] # Unset

-----------------------------------------------------------------------------
(* initialize() *)

\* C22: initialize() returns for every outcome of its probe, and then
\* is_initialized says whether a key other than the placeholder is configured
\* and the probe returned a text containing 'ok'; a call makes at most one
\* probe, and none without such a key, when it returns at once with
\* is_initialized false.  (So a later call that fails clears the flag.)
InitializeDecides ==
    [][/\ \A mo \in ProbeOutcomes :
              InitializeReturn(mo) =>
                  /\ initpc' = "idle"
                  /\ calls' = calls
                  /\ is_initialized' =
                         (/\ Truthy(api_key') /\ api_key' # Placeholder
                          /\ mo.ok /\ Contains(Lower(mo.val), <<"o", "k">>))
       /\ \A key \in ApiKeys :
              InitializeStart(key) =>
                  IF Truthy(key) /\ key # Placeholder
                  THEN /\ initpc' = "probing"
                       /\ Cardinality(calls' \ calls) <= 1
                       /\ \A c \in calls' \ calls : c.by = "initialize"
                  ELSE /\ initpc' = "idle"
                       /\ calls' = calls
                       /\ ~is_initialized']_vars

\* A second initialize() has started while the service was initialized, its
\* probe has failed, and it has returned with is_initialized false.
SecondInitializeFailed ==
    /\ ninits = 2
    /\ initpc = "idle"
    /\ KeyConfigured
    /\ ~is_initialized
    /\ \E c \in calls : c.by = "initialize" /\ c.ready

-----------------------------------------------------------------------------
(* The updates of a run and its end *)

\* The broadcast of a run's current update has ended after a send was
\* attempted to every client that was registered at its start and is
\* registered in reg.
Handed(b, reg) ==
    b.phase \in {"done", "raised"} /\ (b.start \cap Live(reg)) \subseteq b.attempted

\* C23: when orchestrate_generation has returned or raised, the run's last
\* update carries progress 100 or -1; the broadcast of an update has ended,
\* after a send was attempted to every client registered from its start on,
\* when send_update goes on to the personal message and when the run ends; and
\* a run that has ended builds no further update.
UpdatesHandedOverBeforeEnd ==
    [][\A j \in Jobs :
         /\ at[j] \in {"returned", "raised"} =>
                events'[j] = events[j] /\ at'[j] = at[j] /\ bc'[j] = bc[j]
         /\ at'[j] \in {"returned", "raised"} =>
                /\ Len(events'[j]) > 0
                /\ Last(events'[j]).progress = IF at'[j] = "returned" THEN 100 ELSE -1
         /\ at'[j] \in {"personal", "returned", "raised"} /\ job'[j].websocket_manager =>
                Handed(bc'[j], active_connections')]_vars

-----------------------------------------------------------------------------
(* GeminiService.generate_synthetic_data called on its own *)

\* [{"id":"a"},{"id":"b"}]
TextTwoRecords ==
    <<"[", "{", "\"", "i", "d", "\"", ":", "\"", "a", "\"", "}", ",", "{", "\"", "i", "d",
      "\"", ":", "\"", "b", "\"", "}", "]">>
\* "sorry"
TextString ==
    <<"\"", "s", "o", "r", "r", "y", "\"">>

\* What the generation's invocation may get: an exception, or a response
\* text, any short text included.
GenerateOutcomes ==
    {Raise("429 quota exceeded")}
        \cup {Ok(t) : t \in ShortTexts \cup {TextRecords, TextTwoRecords, TextOneRecord,
                                             TextNumbers, TextNoJson, TextString,
                                             TextDomainHealthcare}}

\* config with rowCount 0 .. MaxRows.
GenerateConfigs == {PDict([rowCount |-> PNum(n)]) : n \in 0..MaxRows}

GenerateArgs ==
    [schema : {SchemaPatients, SchemaNames}, config : GenerateConfigs,
     available : BOOLEAN, mo : GenerateOutcomes, rnd : Rnds, now : Days]

\* generate_synthetic_data(schema, config) with is_initialized = available and
\* its invocation, when it makes one, getting mo.
generate_synthetic_data(schema, config, available, mo, rnd, now) ==
    LET b == GenerateBegin(schema, config, available, rnd, now)
    IN  IF b = Invoke THEN GenerateEnd(schema, config, mo, rnd, now) ELSE b

CallGenerate ==
    /\ args # Unset
    /\ out = Unset
    /\ out' = generate_synthetic_data(args.schema, args.config, args.available, args.mo,
                                      args.rnd, args.now)
    /\ UNCHANGED <<jobVars, gemVars, agentVars, wsVars, args>>

\* One call of generate_synthetic_data; the random source and the clock are
\* drawn only for a schema that reads them, and the model's outcome only for
\* a call that invokes the model.
InitGenerate ==
    /\ InitProgram
    /\ args \in {a \in GenerateArgs : /\ a.rnd \in RndsOf(a) /\ a.now \in DaysOf(a)
                                      /\ ~a.available => a.mo = Raise("429 quota exceeded")}
    /\ out = Unset
NextGenerate == CallGenerate
SpecGenerate == InitGenerate /\ [][NextGenerate]_vars

\* The invocation of the call raised, or its response was not parsed as an
\* array, or was parsed as the empty array.
NoRecords(mo) ==
    \/ ~mo.ok
    \/ _parse_json_array_response(mo.val).t # "list"
    \/ _parse_json_array_response(mo.val) = EmptyList

\* C24: a call of generate_synthetic_data with the model available whose
\* invocation raises, or whose response is not parsed as an array or is parsed
\* as the empty array, returns exactly rowCount records, each with every
\* field of the schema.
GenerateFallsBack ==
    out # Unset /\ args.available /\ NoRecords(args.mo) =>
        /\ out.do = "return"
        /\ RecordsOf(out.val, args.schema, RowsAsked(args.config).v)

-----------------------------------------------------------------------------
(* Deliveries of an update *)

\* C25: no client is sent an update of a run more than once, whatever its
\* client id; and when the run has ended after an undisturbed last broadcast,
\* every client registered at the start of that broadcast whose send did not
\* fail has been sent the last update exactly once.
UpdateReceivedOnce ==
    \A j \in Jobs : \A c \in Clients :
        /\ recv[j][c] <= 1
        /\ at[j] \in {"returned", "raised"} /\ bc[j].phase = "done" /\ bc[j].quiet
               /\ c \in bc[j].start \ Failed(j)
           => recv[j][c] = 1

-----------------------------------------------------------------------------
(* Who changes is_initialized *)

\* The model stages a step of the run of job j enters.
NewlyEntered(j) ==
    {entered'[j][i] : i \in (Len(entered[j]) + 1)..Len(entered'[j])} \cap ModelStages

\* C26: only initialize() changes is_initialized: a health check, whatever
\* it returns, and a model invocation of a stage, whatever it gives, leave it
\* as it is; and a run of a well-formed job that enters a model stage while
\* the service is initialized invokes the model in that stage, whatever the
\* earlier invocations gave.
OnlyInitializeSetsFlag ==
    [][/\ is_initialized' # is_initialized =>
              \/ \E key \in ApiKeys : InitializeStart(key)
              \/ \E mo \in ProbeOutcomes : InitializeReturn(mo)
       /\ \A j \in Jobs :
              is_initialized =>
                  \A stage \in NewlyEntered(j) :
                      \E c \in calls' \ calls : c.job = j /\ c.by = stage /\ c.ready]_vars

\* After an initialize that succeeded, a health check has returned the status
\* error and a run has ended whose four invocations were all made with the
\* service initialized, the privacy stage's having raised (its output is the
\* default without 'error'); the service is still initialized.
StillInitializedAfterFailures ==
    /\ is_initialized
    /\ initpc = "idle"
    /\ health # Unset
    /\ health.v.status = PStr("error")
    /\ at["job-1"] = "returned"
    /\ \A stage \in ModelStages :
           \E c \in calls : c.job = "job-1" /\ c.by = stage /\ c.ready
    /\ ctx["job-1"].privacy_assessment.t = "dict"
    /\ "error" \notin DOMAIN ctx["job-1"].privacy_assessment.v

-----------------------------------------------------------------------------
(* What the generation call is given *)

-----------------------------------------------------------------------------
(* A broadcast during which the registry changes *)

\* The clients whose send failed in the broadcast b.
FailedIn(b) == {b.disconnected[i] : i \in 1..Len(b.disconnected)}

\* C28: when a broadcast ends during which a client connected or
\* disconnected, every client registered from its start to its end whose send
\* did not fail has been sent the message, and no client whose send failed in
\* it is registered any more.
DisturbedBroadcastDelivers ==
    [][\A j \in Jobs :
         at[j] = "broadcast" /\ bc'[j].phase \in {"done", "raised"} /\ ~bc'[j].quiet =>
             /\ (bc'[j].start \cap Live(active_connections')) \ FailedIn(bc'[j])
                    \subseteq bc'[j].delivered
             /\ FailedIn(bc'[j]) \cap Live(active_connections') = {}]_vars

-----------------------------------------------------------------------------
(* GeminiService._generate_realistic_value called on its own *)

MaxIndex == 102
Limits == {0, 10, 18, 90}

NumberField(lo, hi) ==
    PDict([type |-> PStr("number"),
           constraints |-> PDict([min |-> PNum(lo), max |-> PNum(hi)])])

\* The fields of type number with constraints min <= max and no examples.
NumberFields == {NumberField(q[1], q[2]) : q \in {p \in Limits \X Limits : p[1] <= p[2]}}

ValueNames == {"score", "amount", "x", "age", "stage", "Page", "full_name"}

ValueArgs == [field_info : NumberFields, field_name : ValueNames, index : 0..MaxIndex]

\* The number branch reads neither the random source nor the clock.
CallValue ==
    /\ args # Unset
    /\ out = Unset
    /\ out' = _generate_realistic_value(args.field_info, args.field_name, args.index, 0, 0)
    /\ UNCHANGED <<jobVars, gemVars, agentVars, wsVars, args>>

InitValue == InitProgram /\ args \in ValueArgs /\ out = Unset
NextValue == CallValue
SpecValue == InitValue /\ [][NextValue]_vars

\* C29: for a field of type number with constraints min <= max and no
\* examples, the value generated at every index i >= 0 is a number within
\* [min, max], whatever the field's name.
NumberWithinConstraints ==
    out # Unset =>
        /\ out.t = "num"
        /\ out.v >= args.field_info.v.constraints.v.min.v
        /\ out.v <= args.field_info.v.constraints.v.max.v

-----------------------------------------------------------------------------
(* The number of records of a result *)

\* The records the generation call recovered from its invocation's outcome
\* mo: none when the invocation raised or no array was parsed.
Recovered(mo) ==
    IF mo.ok /\ _parse_json_array_response(mo.val).t = "list"
    THEN Len(_parse_json_array_response(mo.val).v) ELSE 0

\* C30: the Result a run returns for a job with rowCount N >= 0 (100 without
\* rowCount) holds at most N records: min(k, N) when the run ends after the
\* generation's invocation gave k > 0 records, a result of k < N records being
\* returned without padding, and exactly N when the fallback generated them
\* (the invocation gave none, or the service was not initialized).
ResultWithinRowCount ==
    [][\A j \in Jobs :
         /\ result[j] = Unset
         /\ result'[j] \notin {Unset, PNone}
         /\ RowsAsked(job'[j].config).t = "num"
         /\ RowsAsked(job'[j].config).v >= 0
         => LET n == Len(result'[j].v.data.v)
                asked == RowsAsked(job'[j].config).v
                generating == at[j] = "model" /\ Program[pc[j]].stage = "data_generation"
            IN  /\ result'[j].v.data.t = "list"
                /\ n <= asked
                /\ ~generating => n = asked
                /\ generating =>
                       \A mo \in Outcomes("data_generation") :
                           ModelReturn(j, mo) =>
                               n = IF Recovered(mo) > 0 THEN Min(Recovered(mo), asked)
                                   ELSE asked]_vars

\* A run has returned a Result of one record for a job asking for two: the
\* model's response held one record.
PartialResultReturned ==
    /\ at["job-1"] = "returned"
    /\ result["job-1"] \notin {Unset, PNone}
    /\ RowsAsked(job["job-1"].config) = PNum(2)
    /\ result["job-1"].v.data = _parse_json_array_response(TextOneRecord)
    /\ Len(result["job-1"].v.data.v) = 1

-----------------------------------------------------------------------------
(* The shape of a recovered value *)

\* C31: when one of the four strategies returns from
\* _parse_json_array_response_enhanced, the value returned is a list, and it
\* is the one-element list of the parsed value when the strategy parsed a
\* single object.
RecoveryReturnsList ==
    EnhancedCall /\ out.by # 0 =>
        /\ out.val.t = "list"
        /\ StrategyParse(out.by, args.text).val.t = "dict" =>
               out.val = PList(<<StrategyParse(out.by, args.text).val>>)

-----------------------------------------------------------------------------
(* Trailing commas *)

\* The text s from position i on without the commas that stand, outside a
\* string, before a closing bracket or brace (white space between allowed);
\* quoted says that position i is inside a string.
RECURSIVE DropTrailingCommas(_, _, _)
DropTrailingCommas(s, i, quoted) ==
    IF i > Len(s) THEN <<>>
    ELSE IF quoted
    THEN IF s[i] = "\\" /\ i < Len(s)
         THEN <<s[i], s[i + 1]>> \o DropTrailingCommas(s, i + 2, TRUE)
         ELSE <<s[i]>> \o DropTrailingCommas(s, i + 1, s[i] # "\"")
    ELSE IF /\ s[i] = ","
            /\ SkipWs(s, i + 1) <= Len(s)
            /\ s[SkipWs(s, i + 1)] \in {"}", "]"}
    THEN DropTrailingCommas(s, i + 1, FALSE)
    ELSE <<s[i]>> \o DropTrailingCommas(s, i + 1, s[i] = "\"")

\* The text with its trailing commas removed by hand.
HandCorrected(text) == DropTrailingCommas(text, 1, FALSE)

\* The text is valid JSON but for trailing commas.
OnlyTrailingCommas(text) == ~JsonLoads(text).ok /\ JsonLoads(HandCorrected(text)).ok

\* C32: for a text that is valid JSON but for trailing commas, the repair
\* strategy of _parse_json_array_response_enhanced parses the value of the
\* hand-corrected text, and the function returns it (in a list unless it is
\* one) from that strategy.
TrailingCommasRepaired ==
    EnhancedCall /\ OnlyTrailingCommas(args.text) =>
        /\ StrategyParse(3, args.text) = JsonLoads(HandCorrected(args.text))
        /\ out.by = 3
        /\ out.val = AsList(JsonLoads(HandCorrected(args.text)).val)

-----------------------------------------------------------------------------
(* Two jobs, one of them failing *)

\* A job without schema, publishing to the connected clients.
FailingJob == Job(PList(<<RowPatient>>), PNone, PDict([rowCount |-> PNum(1)]), TRUE)

\* job-1 is well formed, job-2 has no schema; both run concurrently on the one
\* orchestrator and publish to the one ConnectionManager; every model
\* invocation raises, a send succeeds or fails.
NextMixed ==
    \/ Submit("job-1", WsJob)
    \/ Submit("job-2", FailingJob)
    \/ \E j \in Jobs : ModelReturn(j, Raise("429 quota exceeded"))
    \/ \E j \in Jobs, ok \in BOOLEAN : BroadcastSendReturn(j, ok)
    \/ \E j \in Jobs, ok \in BOOLEAN : PersonalSendReturn(j, ok)

SpecMixed == InitTwo /\ [][NextMixed]_vars

\* The run of job j with arguments a on its own: no other job, no client, and
\* every model invocation raising; r is the run at a suspension or at its end.
RECURSIVE Alone(_, _, _)
Alone(j, a, r) ==
    IF r.at # "model" THEN r
    ELSE LET stage == Program[r.pc].stage
             b == StageEnd(a, r.ctx, stage, Raise("429 quota exceeded"), 0, 0)
         IN  Alone(j, a, Run(j, a, Leave(r, stage, b), 0, 0))

RunAlone(j, a) ==
    LET quiet == [a EXCEPT !.websocket_manager = FALSE]
    IN  Alone(j, quiet, Run(j, quiet, NewRun, 0, 0))

\* The places of the error updates among the updates of job j.
ErrorUpdates(j) == {i \in 1..Len(events[j]) : events[j][i].progress = -1}

\* C33: with two jobs in flight, every update carries the job_id of its run,
\* and the updates, the result and the exception of a job are those of its run
\* alone: the job that fails builds one update with progress -1, as its
\* last, and raises; the other job returns its own result after its update
\* with progress 100.
JobsDoNotInterfere ==
    \A j \in Jobs :
        job[j] # Unset =>
            /\ \A i \in 1..Len(events[j]) : events[j][i].job_id = j
            /\ IsPrefix(events[j], RunAlone(j, job[j]).events)
            /\ ErrorUpdates(j) \subseteq {Len(events[j])}
            /\ at[j] \in {"returned", "raised"} =>
                   /\ at[j] = RunAlone(j, job[j]).at
                   /\ events[j] = RunAlone(j, job[j]).events
                   /\ result[j] = RunAlone(j, job[j]).result
                   /\ raised[j] = RunAlone(j, job[j]).raised
            /\ at[j] = "raised" => ErrorUpdates(j) = {Len(events[j])}
            /\ at[j] \in {"returned", "raised"} /\ job[j] = WsJob => ReturnedResult(j)

\* The job without schema has raised after its error update, which the guest
\* was sent, while the other job is in flight, suspended in a send after
\* several updates; the guest has been sent updates of both.
OneJobFailedOtherInFlight ==
    /\ at["job-2"] = "raised"
    /\ ErrorUpdates("job-2") = {Len(events["job-2"])}
    /\ at["job-1"] = "broadcast"
    /\ Len(events["job-1"]) >= 3
    /\ GuestUser \in Live(active_connections)
    /\ Len(got[GuestUser]["job-1"]) >= 3
    /\ Len(got[GuestUser]["job-2"]) >= 1
    /\ Last(got[GuestUser]["job-2"]).progress = -1

-----------------------------------------------------------------------------
(* health_check() *)

HealthStatuses == {PStr("online"), PStr("degraded"), PStr("offline"), PStr("error")}

\* The probe call of a health check.
HealthProbe(c) == c.by = "health_check"

\* C34: health_check returns a dict whose status is one of the four: offline,
\* without a call of the model, exactly when the service is not initialized
\* at the call; otherwise it makes its one probe call and awaits it, and on
\* the probe's return, without a further call, online when the reply holds
\* 'ok' (in any case of letters), degraded when it does not, error when the
\* probe raised.
HealthCheckAnswers ==
    [][/\ health' # health => health'.t = "dict" /\ health'.v.status \in HealthStatuses
       /\ HealthCheckStart =>
              IF ~is_initialized
              THEN /\ health'.v.status = PStr("offline")
                   /\ hcpc' = "idle"
                   /\ calls' = calls
              ELSE /\ \E c \in calls' : HealthProbe(c)
                   /\ \A c \in calls' \ calls : HealthProbe(c)
                   /\ \/ hcpc' = "probing" /\ health' = health
                      \/ hcpc' = "idle" /\ health'.v.status = PStr("error")
       /\ \A mo \in ProbeOutcomes :
              HealthCheckReturn(mo) =>
                  /\ hcpc' = "idle"
                  /\ calls' = calls
                  /\ health'.v.status =
                         IF ~mo.ok THEN PStr("error")
                         ELSE IF Contains(Lower(mo.val), <<"o", "k">>) THEN PStr("online")
                         ELSE PStr("degraded")]_vars

\* A health check of the initialized service has returned degraded: its probe
\* was answered without 'ok'.
HealthCheckDegraded ==
    /\ hcpc = "idle"
    /\ is_initialized
    /\ health # Unset
    /\ health.v.status = PStr("degraded")
    /\ \E c \in calls : HealthProbe(c) /\ c.ready

-----------------------------------------------------------------------------
(* The examples of a field *)

MaxExampleIndex == 7

ExampleLists == {EmptyList, PList(<<PStr("a")>>), PList(<<PStr("a"), PStr("b")>>),
                 PList(<<PNum(100), PNum(200), PNum(300)>>)}

\* Field specs with an examples list (empty or not), with and without a type
\* and constraints.
ExampleFields ==
    {PDict([examples |-> e]) : e \in ExampleLists}
    \cup {PDict([type |-> PStr(ty), examples |-> e]) :
              ty \in {"string", "number", "uuid"}, e \in ExampleLists}
    \cup {PDict([type |-> PStr("number"), examples |-> e,
                 constraints |-> PDict([min |-> PNum(0), max |-> PNum(10)])]) :
              e \in ExampleLists}

ExampleArgs == [field_info : ExampleFields, field_name : ValueNames \cup {"patient_id"},
                index : 0..MaxExampleIndex]

InitExamples == InitProgram /\ args \in ExampleArgs /\ out = Unset
SpecExamples == InitExamples /\ [][NextValue]_vars

\* C35: for a field spec with a non-empty examples list, the value generated
\* at index i is examples[i mod len(examples)], whatever the field's type,
\* name and constraints.
ExamplesCycle ==
    out # Unset /\ Len(args.field_info.v.examples.v) > 0 =>
        out = args.field_info.v.examples.v[(args.index % Len(args.field_info.v.examples.v)) + 1]

\* The value at index 4 of a number field named age with constraints [0, 10]
\* and three examples is the second example, outside the constraints.
SecondExampleOfAge ==
    /\ out = PNum(200)
    /\ args.index = 4
    /\ args.field_name = "age"
    /\ "constraints" \in DOMAIN args.field_info.v

-----------------------------------------------------------------------------
(* Recovery of a well-formed array *)

\* The characters of a string.
StrChars(w) == [i \in 1..Len(w) |-> SubSeq(w, i, i)]

RECURSIVE JsonDumps(_)
RECURSIVE DumpItems(_, _)
RECURSIVE DumpPairs(_, _)

\* The items q[i..] of a list, separated by ', '.
DumpItems(q, i) ==
    IF i > Len(q) THEN <<>>
    ELSE JsonDumps(q[i]) \o (IF i < Len(q) THEN <<",", " ">> ELSE <<>>) \o DumpItems(q, i + 1)

\* The pairs of dict f with keys ks as "key": value, separated by ', '.
DumpPairs(f, ks) ==
    IF ks = {} THEN <<>>
    ELSE LET k == CHOOSE x \in ks : TRUE
         IN  <<"\"">> \o StrChars(k) \o <<"\"", ":", " ">> \o JsonDumps(f[k])
             \o (IF ks # {k} THEN <<",", " ">> ELSE <<>>) \o DumpPairs(f, ks \ {k})

\* json.dumps(value) with its default separators.  The strings json.loads
\* gives here hold no character that needs an escape, and a float is written
\* as the text it was read from.
JsonDumps(value) ==
    CASE value.t = "none" -> <<"n", "u", "l", "l">>
      [] value.t = "bool" -> IF value.v THEN <<"t", "r", "u", "e">>
                             ELSE <<"f", "a", "l", "s", "e">>
      [] value.t = "num" -> StrChars(ToString(value.v))
      [] value.t = "float" -> StrChars(value.v)
      [] value.t = "str" -> <<"\"">> \o StrChars(value.v) \o <<"\"">>
      [] value.t = "list" -> <<"[">> \o DumpItems(value.v, 1) \o <<"]">>
      [] value.t = "dict" -> <<"{">> \o DumpPairs(value.v, DOMAIN value.v) \o <<"}">>

\* The text is a JSON array.
ValidArray(text) == JsonLoads(text).ok /\ JsonLoads(text).val.t = "list"

\* C36: for a text that is a valid JSON array the enhanced array parser
\* returns the array the text denotes, and the parser applied to the
\* serialization of that result returns the same value again.
RecoveryIdentityOnArrays ==
    EnhancedCall /\ ValidArray(args.text) =>
        /\ out.val = JsonLoads(args.text).val
        /\ _parse_json_array_response_enhanced(JsonDumps(out.val)) = out.val

\* The parser has returned the nested array of a text that its serialization
\* differs from.
NestedArrayRecovered ==
    /\ EnhancedCall
    /\ args.text = TextNested
    /\ out.val = JsonLoads(TextNested).val
    /\ Len(out.val.v) = 2
    /\ JsonDumps(out.val) # TextNested

-----------------------------------------------------------------------------
(* The status of the agents *)

\* The agent whose method a stage awaits; generation and assembly run in the
\* orchestrator itself.
AgentOf(stage) ==
    CASE stage = "domain_analysis" -> "domain_expert"
      [] stage = "privacy_assessment" -> "privacy_agent"
      [] stage = "bias_detection" -> "bias_detector"
      [] stage = "relationship_mapping" -> "relationship_agent"
      [] stage \in {"quality_planning", "quality_validation"} -> "quality_agent"
      [] OTHER -> ""

\* The stage job j is suspended in, "" when it is in none.
Processing(j) == IF at[j] = "model" THEN Program[pc[j]].stage ELSE ""

\* The stages of job j that have returned.
ReturnedStages(j) == {entered[j][i] : i \in 1..Len(entered[j])} \ {Processing(j)}

\* C37: an agent's status is analyzing while its stage is processing, and
\* completed or error once its stage has returned (and the agent processes
\* no other stage).
AgentStatusMachine ==
    \A j \in Jobs :
        /\ AgentOf(Processing(j)) # "" => status[AgentOf(Processing(j))] = "analyzing"
        /\ \A s \in ReturnedStages(j) :
               AgentOf(s) # "" /\ \A k \in Jobs : AgentOf(Processing(k)) # AgentOf(s) =>
                   status[AgentOf(s)] \in {"completed", "error"}

-----------------------------------------------------------------------------
(* The arguments of a run *)

\* C38: the source_data, schema, config and description a job was submitted
\* with keep their contents at every step of its run, whether the run ends
\* with a result or with an exception, and the generation call is handed
\* these contents, with or without the model.
JobLeftUnchanged ==
    [][\A j \in Jobs :
          /\ job[j] # Unset => job'[j] = job[j]
          /\ handed'[j] # Unset =>
                 /\ handed'[j].source_data = job'[j].source_data
                 /\ handed'[j].schema = job'[j].schema
                 /\ handed'[j].config = job'[j].config
                 /\ handed'[j].description = job'[j].description]_vars

\* A run that invoked the model has failed after its generation call, and
\* the job holds the arguments the call was handed.
JobSameAfterFailure ==
    /\ at["job-1"] = "raised"
    /\ Invoked("job-1")
    /\ handed["job-1"] # Unset
    /\ handed["job-1"].config = job["job-1"].config
    /\ handed["job-1"].schema = job["job-1"].schema

====
